---------------------------- MODULE Spec2Model ----------------------------
(***************************************************************************)
(* Model of the patch installation core of hadesmem                       *)
(* (src/include/memory/hadesmem/patcher.hpp): PatchRaw, PatchDetour,       *)
(* PatchVeh, PatchInt3 and PatchDr, the jump writer, the exception         *)
(* registry and the threads that execute the patched code.                 *)
(*                                                                         *)
(* Addresses and displacements keep their real widths.  TLC's integers are *)
(* 32 bits wide, so a machine word is the pair <<hi, lo>> standing for     *)
(* hi * 2^16 + lo with 0 <= lo < 2^16; hi may be negative for a signed     *)
(* difference.  User-mode addresses are below 2^47, so hi stays in range.  *)
(***************************************************************************)
EXTENDS Integers, Sequences, FiniteSets, TLC

VARIABLES
  arch,       \* "x86" or "x64": HADESMEM_DETAIL_ARCH_X86 / _X64, fixed per build
  class,      \* the patch class the program instantiates in this run
  mem,        \* the bytes of the target function, one cell per byte
  patches,    \* the patch objects, by slot
  veh_hooks,  \* PatchVeh::GetVehHooks(): target address -> patch object
  dr_hooks,   \* PatchVeh::GetDrHooks(): thread id -> debug register index
  context,    \* the calling thread's debug registers Dr0..Dr3 and Dr7
  initialized,\* PatchVeh::GetInitialized(): the handler is registered
  objects,    \* number of patch objects the program may still construct
  faults,     \* number of external calls that may still fail
  pc,         \* program counter of every other thread of the process
  last,       \* the API call that has just returned, and how it ended
  shadow,     \* per patch: the target bytes before its last successful
              \* Apply, and whether only this patch wrote them since
  local,      \* process.GetId() == ::GetCurrentProcessId(): the patched
              \* process is the one the API threads run in
  thread,     \* per thread: the statement it is at, and for the thread in
              \* the exception handler the ExceptionAddress
  srw_lock,   \* PatchVeh::GetSrwLock(): its exclusive and shared holders
  frozen,     \* per API thread: the threads its SuspendedProcess suspended
  handlers,   \* times AddVectoredExceptionHandler registered VectoredHandler
  stale,      \* bytes of the target were written and the instruction cache
              \* has not been flushed over them since
  frames,     \* the CreateProcessInternalWDetour invocations of a thread,
              \* innermost last
  in_hook,    \* the thread-local in_hook of CreateProcessInternalWDetour
  last_error, \* the thread's last-error value: what the program had set,
              \* what the original function of a call left, or another
  children    \* the processes created through the hook, by creation order

\* The threads of the process at statement level.
tvars == <<local, thread, srw_lock, frozen, handlers, stale>>

\* The CreateProcessInternalW hook of cerberus.
hvars == <<frames, in_hook, last_error, children>>

vars ==
  <<arch, class, mem, patches, veh_hooks, dr_hooks, context, initialized,
    objects, faults, pc, last, shadow, tvars, hvars>>

---------------------------------------------------------------------------
(* Bounds of the model. *)

\* Number of patch object slots.
NumPatches == 2

\* Number of external calls (memory I/O, cache flush) that fail in one run.
MaxFaults == 1

\* Number of threads of the process besides the caller.
NumWorkers == 1

\* Most near pages the operating system grants during one Apply call.
MaxNearQuota == 1

Patches == 1 .. NumPatches
Workers == 1 .. NumWorkers

---------------------------------------------------------------------------
(* Machine words. *)

W16 == 2 ^ 16
W15 == 2 ^ 15

Word(hi, lo) == <<hi + (lo \div W16), lo % W16>>

Null == <<0, 0>>

WAdd(a, b) == Word(a[1] + b[1], a[2] + b[2])
WSub(a, b) == Word(a[1] - b[1], a[2] - b[2])
WAddInt(a, n) == Word(a[1], a[2] + n)

WLt(a, b) == a[1] < b[1] \/ (a[1] = b[1] /\ a[2] < b[2])
WLe(a, b) == a = b \/ WLt(a, b)

\* static_cast<std::uint32_t>(x): the low 32 bits.
Trunc32(a) == <<a[1] % W16, a[2]>>

\* A 32-bit field read as a signed displacement, as the CPU does.
SExt32(u) == IF u[1] >= W15 THEN <<u[1] - W16, u[2]>> ELSE u

\* An address as the build's pointer type holds it: 32 bits on x86.
Ptr(a, ar) == IF ar = "x86" THEN Trunc32(a) ELSE a

InRange(a, lo, len) == WLe(lo, a) /\ WLt(a, WAddInt(lo, len))

---------------------------------------------------------------------------
(* Program constants. *)

kMaxInstructionLen == 15
kTrampSize == kMaxInstructionLen * 3
kJmpSize32 == 5
kCallSize32 == 5
kJmpSize64x64 == 6
kCallSize64x64 == 6
kPushRetSize64 == 14
kPushRetSize32 == 6
kInt3Size == 1
kDrPatchSize == 1

kJmpSize64(ar) == IF ar = "x64" THEN kJmpSize64x64 ELSE kJmpSize32
kCallSize64(ar) == IF ar = "x64" THEN kCallSize64x64 ELSE kCallSize32

\* AllocatePageNear searches within address +/- 0x7FFFFF00.
NearSpan == <<32767, 65280>>

---------------------------------------------------------------------------
(* The address space of the model. *)

\* The hooked function, at 0x90001000.
TargetAddr == <<36864, 4096>>

\* Detour functions: 0x100 above the target; 0x1000 below it; exactly 2^31
\* past target + 5; and 2^33 above it.
DetourNear == WAddInt(TargetAddr, 256)
DetourBack == WAddInt(TargetAddr, -4096)
DetourGap == WAdd(WAddInt(TargetAddr, 5), <<W15, 0>>)
DetourFar == WAdd(TargetAddr, <<2 * W16, 0>>)

\* The detours of the program: a pointer is 32 bits wide on x86.
Detours(ar) ==
  IF ar = "x64" THEN {DetourNear, DetourGap, DetourFar}
  ELSE {DetourNear, DetourBack}

\* Where the operating system may place a trampoline allocation, which is
\* made with no address hint: at 0x0FF00000, more than 2 GiB below the
\* target, or at 0x90100000, just above it.
TrampBelow == <<4080, 0>>
TrampAbove == <<36880, 0>>

TrampPool == {TrampBelow, TrampAbove}

\* Pages the operating system can grant to AllocatePageNear: a run above
\* the target and the trampolines, within 2 GiB of them.
PageSize == <<0, 4096>>
NearPagePool ==
  {<<36896, 0>>, <<36896, 4096>>, <<36896, 8192>>, <<36896, 12288>>}

---------------------------------------------------------------------------
(* Instructions and bytes.  A byte of code is the cell [ins, idx]: byte    *)
(* idx of the encoding of instruction ins.  Two byte ranges are equal      *)
(* exactly when their cells are.                                           *)

Ins2(op, len, imm, imm2) ==
  [op |-> op, len |-> len, imm |-> imm, imm2 |-> imm2]

Ins(op, len, imm) == Ins2(op, len, imm, Null)

Bytes(ins) == [k \in 1 .. ins.len |-> [ins |-> ins, idx |-> k - 1]]

\* The target function as built: mov eax, imm32 ; ret, then the 0xCC
\* bytes that pad it.
OrigCode ==
  Bytes(Ins("mov", 5, Null)) \o Bytes(Ins("ret", 1, Null))
    \o Bytes(Ins("int3", 1, Null)) \o Bytes(Ins("int3", 1, Null))

\* A target function that begins with a conditional branch: jz +4 ;
\* mov eax, imm32 ; ret.  The branch is taken to target + 6.
JccCode ==
  Bytes(Ins("jcc", 2, <<0, 4>>)) \o Bytes(Ins("mov", 5, Null))
    \o Bytes(Ins("ret", 1, Null))

\* An x64 target function that begins with a load through a RIP-relative
\* memory operand: mov rax, [rip + 0x100] ; ret.
RipCode ==
  Bytes(Ins("movrip", 7, <<0, 256>>)) \o Bytes(Ins("ret", 1, Null))

\* The target functions of the build besides OrigCode.
BranchCode(ar) == IF ar = "x64" THEN {JccCode, RipCode} ELSE {JccCode}

\* The bytes a PatchRaw is constructed with.
RawData == Bytes(Ins("nop", 1, Null)) \o Bytes(Ins("ret", 1, Null))

\* ud_disassemble on the bytes at offset off of buf: the instruction whose
\* encoding starts there, or length 0 when the bytes are no instruction.
NoIns == Ins("invalid", 0, Null)

Disassemble(buf, off) ==
  IF off + 1 > Len(buf) THEN NoIns
  ELSE LET c == buf[off + 1] IN
       IF /\ c.idx = 0
          /\ off + c.ins.len <= Len(buf)
          /\ \A k \in 0 .. c.ins.len - 1 :
               buf[off + 1 + k] = [ins |-> c.ins, idx |-> k]
       THEN c.ins
       ELSE NoIns

\* ReadVector(process, target_ + off, n) on the target function.
ReadCode(m, off, n) == SubSeq(m, off + 1, off + n)

\* WriteVector(process, target_ + off, data) on the target function.
WriteCode(m, off, data) ==
  [k \in 1 .. Len(m) |->
     IF k > off /\ k <= off + Len(data) THEN data[k - off] ELSE m[k]]

---------------------------------------------------------------------------
(* The jump and call encoders. *)

UInt32Min == Null
UInt32Max == <<W16 - 1, W16 - 1>>

\* PatchDetour::IsNear.  On x64 the signed 64-bit displacement is compared
\* with the limits of std::uint32_t, converted to 64 bits.
IsNear(address, target, ar) ==
  IF ar = "x64"
  THEN LET rel == WAddInt(WSub(target, address), -5) IN
       WLt(UInt32Min, rel) /\ WLt(rel, UInt32Max)
  ELSE TRUE

\* disp = target - address - dst_len - op_len, stored as std::uint32_t.
Disp32(address, target, opLen) ==
  Trunc32(WAddInt(WSub(target, address), -(4 + opLen)))

GenJmp32(address, target) == Ins("jmp", kJmpSize32, Disp32(address, target, 1))

GenCall32(address, target) ==
  Ins("call", kCallSize32, Disp32(address, target, 1))

GenJmpTramp64(address, target) ==
  Ins("jmpmem", kJmpSize64x64, Disp32(address, target, 2))

GenCallTramp64(address, target) ==
  Ins("callmem", kCallSize64x64, Disp32(address, target, 2))

\* target_low = target & 0xFFFFFFFF ; target_high = (target >> 32) & 0xFFFFFFFF
TargetLow(target) == Trunc32(target)
TargetHigh(target) == <<0, (target[1] \div W16) % W16>>

GenPush32Ret(target) == Ins("pushret32", kPushRetSize32, TargetLow(target))

GenPush64Ret(target) ==
  Ins2("pushret64", kPushRetSize64, TargetLow(target), TargetHigh(target))

Int3 == Ins("int3", kInt3Size, Null)

---------------------------------------------------------------------------
(* Allocations.  A patch owns its trampoline ([base, code]: the            *)
(* instructions written into it, in order) and its islands ([base, ptr]:   *)
(* the pointer stored in the page).  An allocation lives exactly as long   *)
(* as a patch object holds it.                                             *)

NoTramp == [base |-> Null, code |-> <<>>]

SeqRange(q) == {q[i] : i \in 1 .. Len(q)}

IslandsOf(P) ==
  UNION {SeqRange(P[p].trampolines) : p \in DOMAIN P}

LiveIslandPages(P) == {i.base : i \in IslandsOf(P)}

LiveTramps(P) ==
  {P[p].trampoline.base : p \in DOMAIN P} \ {Null}

LiveAllocs(P) == LiveIslandPages(P) \cup LiveTramps(P)

\* The size of an allocation by its base: a trampoline or a page.
AllocSize(base) == IF base \in NearPagePool THEN PageSize[2] ELSE kTrampSize

\* Read<void*>(process, address) of a pointer slot: the pointer an island
\* holds, or Null with ok = FALSE when nothing is mapped there.
ReadPtr(P, address) ==
  IF address \in LiveIslandPages(P)
  THEN [ok |-> TRUE,
        ptr |-> (CHOOSE i \in IslandsOf(P) : i.base = address).ptr]
  ELSE [ok |-> FALSE, ptr |-> Null]

\* lpMinimumApplicationAddress and lpMaximumApplicationAddress of x64 Windows.
MinAppAddr == <<1, 0>>
MaxAppAddr == <<2147483646, 65535>>

WMax(a, b) == IF WLt(a, b) THEN b ELSE a
WMin(a, b) == IF WLt(a, b) THEN a ELSE b

\* The first and last elements of a non-empty set of addresses.
Lowest(S) == CHOOSE a \in S : \A b \in S : WLe(a, b)
Highest(S) == CHOOSE a \in S : \A b \in S : WLe(b, a)

\* The two passes in the other order: the scan towards lower addresses
\* first.
AllocatePageNearBackwardFirst(address, free) ==
  LET search_beg == WMax(WSub(address, NearSpan), MinAppAddr)
      search_end == WMin(WAdd(address, NearSpan), MaxAppAddr)
      visit(P) == WAddInt(P, address[2] % PageSize[2])
      forward == {P \in free : WLe(address, visit(P))
                               /\ WLt(visit(P), search_end)}
      backward == {P \in free : WLe(visit(P), address)
                                /\ WLt(search_beg, visit(P))}
  IN IF backward # {} THEN Highest(backward)
     ELSE IF forward # {} THEN Lowest(forward)
     ELSE Null

\* PatchDetour::AllocatePageNear on x64.  free: the pages TryAlloc can
\* grant.  The scan visits address + index, index = 0, page, 2 page, ...
\* below search_end, then address - index above search_beg; VirtualAlloc
\* rounds a request down to its page, so page P is visited at P + offset
\* of address in its page.  Null: no page was found (the function throws).
AllocatePageNear(address, free) ==
  LET search_beg == WMax(WSub(address, NearSpan), MinAppAddr)
      search_end == WMin(WAdd(address, NearSpan), MaxAppAddr)
      visit(P) == WAddInt(P, address[2] % PageSize[2])
      forward == {P \in free : WLe(address, visit(P))
                               /\ WLt(visit(P), search_end)}
      backward == {P \in free : WLe(visit(P), address)
                                /\ WLt(search_beg, visit(P))}
  IN IF forward # {} THEN Lowest(forward)
     ELSE IF backward # {} THEN Highest(backward)
     ELSE Null

OkJump(ins, island) == [err |-> "ok", ins |-> ins, island |-> island]
NoJump(err) == [err |-> err, ins |-> NoIns, island |-> <<>>]

\* The far branch of WriteJump: trampoline is what AllocatePageNear found.
\* With no page, the push/ret forms when the caller allows them.
WriteJumpFar(address, target, push_ret_fallback, trampoline) ==
  IF trampoline # Null
  THEN OkJump(GenJmpTramp64(address, trampoline),
              <<[base |-> trampoline, ptr |-> target]>>)
  ELSE IF ~push_ret_fallback
  THEN NoJump("Unreachable")
  ELSE IF TargetHigh(target) # Null
  THEN OkJump(GenPush64Ret(target), <<>>)
  ELSE OkJump(GenPush32Ret(target), <<>>)

\* PatchDetour::WriteJump(address, target, push_ret_fallback): the
\* instruction written at address and the island allocated for it, if any.
WriteJump(address, target, push_ret_fallback, free, ar) ==
  IF ar = "x64" /\ ~IsNear(address, target, ar)
  THEN WriteJumpFar(address, target, push_ret_fallback,
                    AllocatePageNear(address, free))
  ELSE OkJump(GenJmp32(address, target), <<>>)

\* The x64 branch of WriteCall: trampoline is what AllocatePageNear found.
WriteCallFar(address, target, trampoline) ==
  IF trampoline = Null
  THEN NoJump("NoNearPage")
  ELSE OkJump(GenCallTramp64(address, trampoline),
              <<[base |-> trampoline, ptr |-> target]>>)

\* PatchDetour::WriteCall(address, target).
WriteCall(address, target, free, ar) ==
  IF ar = "x64"
  THEN WriteCallFar(address, target, AllocatePageNear(address, free))
  ELSE OkJump(GenCall32(address, target), <<>>)

---------------------------------------------------------------------------
(* What the processor does with the instructions the encoders emit. *)

\* The address control reaches when ins, placed at address at, executes:
\* E9/E8 add the sign-extended rel32 to the next instruction's address;
\* FF 25 / FF 15 load the pointer at RIP + disp32; PUSH imm32 sign-extends
\* its operand to 64 bits before RET pops it.
JumpDest(P, ins, at, ar) ==
  LET next == WAddInt(at, ins.len) IN
  CASE ins.op \in {"jmp", "call"} ->
         [ok |-> TRUE, ptr |-> Ptr(WAdd(next, SExt32(ins.imm)), ar)]
    [] ins.op \in {"jmpmem", "callmem"} ->
         ReadPtr(P, WAdd(next, SExt32(ins.imm)))
    [] ins.op = "pushret32" ->
         [ok |-> TRUE, ptr |-> SExt32(ins.imm)]
    [] ins.op = "pushret64" ->
         [ok |-> TRUE, ptr |-> <<ins.imm2[2] * W16 + ins.imm[1], ins.imm[2]>>]
    [] OTHER -> [ok |-> FALSE, ptr |-> Null]

---------------------------------------------------------------------------
(* Prologue relocation: the do/while loop of PatchDetour::Apply. *)

RECURSIVE CodeSize(_)
CodeSize(code) ==
  IF code = <<>> THEN 0 ELSE Head(code).len + CodeSize(Tail(code))

\* The pages AllocatePageNear can be granted while the islands in made have
\* been allocated by this call: none once the call's quota is used up.
FreePages(cx, made) ==
  IF Len(made) < cx.grant
  THEN (NearPagePool \ LiveIslandPages(cx.P)) \ {i.base : i \in SeqRange(made)}
  ELSE {}

\* The end of one pass: the jump or call that was generated is appended,
\* or its error ends the loop.
Emit(acc, ins, written) ==
  IF written.err # "ok" THEN [acc EXCEPT !.err = written.err]
  ELSE [acc EXCEPT !.code = Append(@, written.ins),
                   !.islands = @ \o written.island,
                   !.off = @ + ins.len]

\* A jump or call to jump_target is written at the trampoline's cursor.
RelocateTo(cx, acc, ins, jump_target) ==
  Emit(acc, ins,
       IF ins.op \in {"jmp", "jmpmem"}
       THEN WriteJump(WAddInt(cx.base, CodeSize(acc.code)), jump_target,
                      TRUE, FreePages(cx, acc.islands), cx.ar)
       ELSE WriteCall(WAddInt(cx.base, CodeSize(acc.code)), jump_target,
                      FreePages(cx, acc.islands), cx.ar))

\* A memory-indirect branch: the destination is read from its pointer slot.
RelocateVia(cx, acc, ins, slot) ==
  IF ~slot.ok THEN [acc EXCEPT !.err = "ReadFailed"]
  ELSE RelocateTo(cx, acc, ins, slot.ptr)

\* A branch whose operand resolves to resolved_target.
RelocateBranch(cx, acc, ins, resolved_target) ==
  IF ins.op \in {"jmp", "call"}
  THEN RelocateTo(cx, acc, ins, resolved_target)
  ELSE RelocateVia(cx, acc, ins, ReadPtr(cx.P, resolved_target))

\* The loop body on the decoded instruction ins: a jmp or call with an
\* immediate operand, or on x64 with a RIP-relative memory operand, is
\* regenerated; anything else is copied.
RelocateIns(cx, acc, ins) ==
  IF ins.len = 0 THEN [acc EXCEPT !.err = "Disasm"]
  ELSE IF \/ ins.op \in {"jmp", "call"}
          \/ ins.op \in {"jmpmem", "callmem"} /\ cx.ar = "x64"
  THEN RelocateBranch(cx, acc, ins,
         Ptr(WAdd(WAddInt(WAddInt(cx.target, acc.off), ins.len),
                  SExt32(ins.imm)), cx.ar))
  ELSE [acc EXCEPT !.code = Append(@, ins), !.off = @ + ins.len]

\* One pass of the loop body on the instruction at offset acc.off.
RelocateOne(cx, acc) == RelocateIns(cx, acc, Disassemble(cx.buf, acc.off))

RECURSIVE RelocateLoop(_, _)

\* The loop condition: while (instr_size < patch_size).
RelocateWhile(cx, next) ==
  IF next.err # "ok" \/ next.off >= cx.patch_size THEN next
  ELSE RelocateLoop(cx, next)

RelocateLoop(cx, acc) == RelocateWhile(cx, RelocateOne(cx, acc))

\* The jump back to target_ + instr_size that ends the trampoline.
JumpBack(acc, back) ==
  [acc EXCEPT !.code = Append(@, back.ins), !.islands = @ \o back.island]

TailJump(cx, acc) ==
  IF acc.err # "ok" THEN acc
  ELSE JumpBack(acc,
                WriteJump(WAddInt(cx.base, CodeSize(acc.code)),
                          WAddInt(cx.target, acc.off), TRUE,
                          FreePages(cx, acc.islands), cx.ar))

\* The trampoline of one Apply: the relocated prologue, then the jump back
\* to target_ + instr_size.
BuildTrampoline(cx) ==
  TailJump(cx, RelocateLoop(cx, [err |-> "ok", off |-> 0, code |-> <<>>,
                                 islands |-> <<>>]))

---------------------------------------------------------------------------
(* Patch objects. *)

Kinds == {"raw", "detour", "int3", "dr"}
VehKinds == {"int3", "dr"}

\* A slot that holds no object.
NoPatch ==
  [kind |-> "none", process |-> FALSE, applied |-> FALSE,
   detached |-> FALSE, target |-> Null, detour |-> Null, data |-> <<>>,
   orig |-> <<>>, trampoline |-> NoTramp, trampolines |-> <<>>]

\* The constructors: PatchRaw(process, target, data) and
\* PatchDetour / PatchInt3 / PatchDr(process, target, detour).
NewPatch(kind, target, detour, data) ==
  [NoPatch EXCEPT !.kind = kind, !.process = TRUE, !.target = target,
                  !.detour = detour, !.data = data]

\* The object a move leaves behind: pointers nulled, containers emptied.
MovedFrom(o) ==
  [o EXCEPT !.process = FALSE, !.applied = FALSE, !.target = Null,
            !.detour = Null, !.data = <<>>, !.orig = <<>>,
            !.trampoline = NoTramp, !.trampolines = <<>>]

\* The catch block of RemoveUnchecked: the object forgets its references.
Forget(o) ==
  [o EXCEPT !.process = FALSE, !.applied = FALSE, !.target = Null,
            !.detour = Null, !.data = <<>>, !.orig = <<>>,
            !.trampoline = NoTramp, !.trampolines = <<>>]

\* VerifyPatchThreads with the check of the thread contexts left out.
VerifyPatchThreadsOff(pcs, target, len) == TRUE

\* detail::VerifyPatchThreads: TRUE when no other thread's program counter
\* is in [target, target + len).
VerifyPatchThreads(pcs, target, len) ==
  \A w \in DOMAIN pcs : ~InRange(pcs[w], target, len)

\* The virtual GetPatchSize of the object's dynamic type.
GetPatchSize(o, ar) ==
  CASE o.kind = "int3" -> kInt3Size
    [] o.kind = "dr" -> kDrPatchSize
    [] OTHER -> IF IsNear(o.target, o.detour, ar) THEN kJmpSize32
                ELSE kJmpSize64(ar)

---------------------------------------------------------------------------
(* The exception registry and the debug registers. *)

CallerTid == 0

MapPut(f, k, v) == [x \in DOMAIN f \cup {k} |-> IF x = k THEN v ELSE f[x]]
MapErase(f, k) == [x \in DOMAIN f \ {k} |-> f[x]]
EmptyMap == [x \in {} |-> 0]

\* A CONTEXT's debug registers: Dr0..Dr3 (dr[i + 1] is DRi) and the set of
\* bits that are set in Dr7.
ClearContext == [dr |-> <<Null, Null, Null, Null>>, dr7 |-> {}]

\* Registers as another user of the debug registers may have left them.
Foreign == <<0, 4660>>
FullContext ==
  [dr |-> <<Foreign, Foreign, Foreign, Foreign>>, dr7 |-> {0, 2, 4, 6}]

\* Dr0 holds a value though L0 is clear, L1 is set though Dr1 is zero, Dr2
\* and Dr3 are free.
MixedContext ==
  [dr |-> <<Foreign, Null, Null, Null>>, dr7 |-> {2}]

\* The loop of PatchDr::WritePatch: the first i in 0..3 whose enable bit
\* L_i (bit 2i of Dr7) is clear and whose register is zero; -1 if none.
FindDr(cx) ==
  LET avail == {i \in 0 .. 3 : (2 * i) \notin cx.dr7 /\ cx.dr[i + 1] = Null}
  IN IF avail = {} THEN -1 ELSE CHOOSE i \in avail : \A j \in avail : i <= j

\* The context PatchDr::WritePatch commits: DRi = target, L_i set, RW_i and
\* LEN_i or-ed with zero, LE (bit 8) set.
SetDr(cx, i, target) ==
  [dr |-> [cx.dr EXCEPT ![i + 1] = target], dr7 |-> cx.dr7 \cup {2 * i, 8}]

\* The context PatchDr::RemovePatch commits: DRi = 0, L_i cleared.
ClearDr(cx, i) ==
  [dr |-> [cx.dr EXCEPT ![i + 1] = Null], dr7 |-> cx.dr7 \ {2 * i}]

\* PatchVeh::HandleBreakpoint: the program counter the handler sets, when
\* ExceptionAddress is hooked.  A registry entry whose patch object no
\* longer exists is a dangling pointer: reading detour_ through it is
\* undefined, so any value may come back.
HandleBreakpoint(veh, P, address) ==
  IF address \notin DOMAIN veh
  THEN {[hit |-> FALSE, rip |-> Null]}
  ELSE IF P[veh[address]].kind = "none"
  THEN {[hit |-> TRUE, rip |-> d] : d \in Detours("x64") \cup {Null}}
  ELSE {[hit |-> TRUE, rip |-> P[veh[address]].detour]}

\* The part of the CONTEXT record an exception carries that the handlers
\* touch: the program counter, the set of B0..B3 bits set in Dr6, and the
\* resume flag (bit 16 of EFlags).
ExceptionContext(rip, dr6, rf) == [rip |-> rip, dr6 |-> dr6, rf |-> rf]

ContinueSearch(cx) == [ret |-> "continue_search", cx |-> cx]
ContinueExecution(cx) == [ret |-> "continue_execution", cx |-> cx]

\* PatchVeh::HandleSingleStep on thread tid: the three lookups, then Dr6 is
\* reset, the resume flag set and the program counter read from the patch
\* as in HandleBreakpoint.
HandleSingleStep(veh, drh, P, tid, address, cx) ==
  IF address \notin DOMAIN veh THEN {ContinueSearch(cx)}
  ELSE IF tid \notin DOMAIN drh THEN {ContinueSearch(cx)}
  ELSE IF drh[tid] \notin cx.dr6 THEN {ContinueSearch(cx)}
  ELSE {ContinueExecution(ExceptionContext(h.rip, {}, TRUE)) :
          h \in HandleBreakpoint(veh, P, address)}

\* PatchVeh::VectoredHandler on thread tid: the switch on ExceptionCode.
\* The possible returns, each with the context as the handler leaves it.
VectoredHandler(veh, drh, P, tid, code, address, cx) ==
  CASE code = "breakpoint" ->
         {IF h.hit THEN ContinueExecution([cx EXCEPT !.rip = h.rip])
                   ELSE ContinueSearch(cx) :
            h \in HandleBreakpoint(veh, P, address)}
    [] code = "single_step" ->
         HandleSingleStep(veh, drh, P, tid, address, cx)
    [] OTHER -> {ContinueSearch(cx)}

---------------------------------------------------------------------------
(* Apply and Remove.  Each operator maps the state an operation finds to   *)
(* the state it leaves: [patch, st, err, ran], st = [mem, veh, drh, ctx].  *)
(* fault names the external call that fails during the operation, if any:  *)
(* "read" (ReadVector), "write" (WriteVector on the target, or             *)
(* SetThreadContext for PatchDr), "flush" (FlushInstructionCache on the    *)
(* target).  ran is FALSE when the operation returned at its first checks. *)

Faults == {"none", "read", "write", "flush"}

\* The errors that report a failed external call.
FaultErrors == {"AllocFailed", "ReadFailed", "WriteFailed", "FlushFailed"}

CodeOff(target) == WSub(target, TargetAddr)[2]

Outcome(o, st, err) == [patch |-> o, st |-> st, err |-> err, ran |-> TRUE]
Skipped(o, st) == [patch |-> o, st |-> st, err |-> "ok", ran |-> FALSE]

\* PatchRaw::Apply.
RawApply(o, st, pcs, fault) ==
  IF o.applied \/ o.detached THEN Skipped(o, st)
  ELSE IF ~VerifyPatchThreads(pcs, o.target, Len(o.data))
  THEN Outcome(o, st, "Busy")
  ELSE IF fault = "read" THEN Outcome(o, st, "ReadFailed")
  ELSE LET o1 == [o EXCEPT !.orig =
                    ReadCode(st.mem, CodeOff(o.target), Len(o.data))]
           st1 == [st EXCEPT !.mem = WriteCode(@, CodeOff(o.target), o.data)]
       IN IF fault = "write" THEN Outcome(o1, st, "WriteFailed")
          ELSE IF fault = "flush" THEN Outcome(o1, st1, "FlushFailed")
          ELSE Outcome([o1 EXCEPT !.applied = TRUE], st1, "ok")

\* PatchRaw::Remove.
RawRemove(o, st, pcs, fault) ==
  IF ~o.applied THEN Skipped(o, st)
  ELSE IF ~VerifyPatchThreads(pcs, o.target, Len(o.data))
  THEN Outcome(o, st, "Busy")
  ELSE IF fault = "write" THEN Outcome(o, st, "WriteFailed")
  ELSE LET st1 == [st EXCEPT !.mem = WriteCode(@, CodeOff(o.target), o.orig)]
       IN IF fault = "flush" THEN Outcome(o, st1, "FlushFailed")
          ELSE Outcome([o EXCEPT !.applied = FALSE], st1, "ok")

Written(err, st, island) == [err |-> err, st |-> st, island |-> island]

\* PatchDetour::WritePatch once WriteJump has generated the jump j: the
\* island is in trampolines_ before the bytes of the jump are written.
WriteDetour(o, st, fault, j) ==
  IF j.err # "ok" THEN Written(j.err, st, <<>>)
  ELSE IF fault = "write" THEN Written("WriteFailed", st, j.island)
  ELSE Written("ok",
               [st EXCEPT !.mem = WriteCode(@, CodeOff(o.target),
                                            Bytes(j.ins))],
               j.island)

\* The virtual WritePatch of an object of kind o.kind, held in slot p.
\*   PatchDetour: WriteJump(target_, detour_, false).
\*   PatchInt3: register in veh_hooks, write 0xCC; unregister if that throws.
\*   PatchDr: register in veh_hooks, pick a debug register, record it in
\*   dr_hooks, commit the context; unregister what was registered on a throw.
WritePatch(o, p, st, free, fault, ar) ==
  CASE o.kind = "int3" ->
         LET veh1 == MapPut(st.veh, o.target, p) IN
         IF fault = "write"
         THEN Written("WriteFailed",
                      [st EXCEPT !.veh = MapErase(veh1, o.target)], <<>>)
         ELSE Written("ok",
                      [st EXCEPT !.veh = veh1,
                                 !.mem = WriteCode(@, CodeOff(o.target),
                                                   Bytes(Int3))], <<>>)
    [] o.kind = "dr" ->
         LET veh1 == MapPut(st.veh, o.target, p)
             undo == MapErase(veh1, o.target)
             dr_index == FindDr(st.ctx)
             drh1 == MapPut(st.drh, CallerTid, dr_index)
         IN IF dr_index = -1
            THEN Written("NoFreeDr", [st EXCEPT !.veh = undo], <<>>)
            ELSE IF fault = "write"
            THEN Written("WriteFailed",
                         [st EXCEPT !.veh = undo,
                                    !.drh = MapErase(drh1, CallerTid)], <<>>)
            ELSE Written("ok",
                         [st EXCEPT !.veh = veh1, !.drh = drh1,
                                    !.ctx = SetDr(@, dr_index, o.target)],
                         <<>>)
    [] OTHER ->
         WriteDetour(o, st, fault,
                     WriteJump(o.target, o.detour, FALSE, free, ar))

\* RemovePatch with the write of orig_ left out: only the registry entry
\* is erased.
RemovePatchNoRestore(dyn, o, st, fault, ub_index) ==
  IF fault = "write" THEN Written("WriteFailed", st, <<>>)
  ELSE Written("ok", [st EXCEPT !.veh = MapErase(@, o.target)], <<>>)

\* The RemovePatch that a call dispatches to: dyn is the class whose
\* override runs.  ub_index stands for the value read through the end
\* iterator when PatchDr::RemovePatch finds no dr_hooks entry.
RemovePatch(dyn, o, st, fault, ub_index) ==
  CASE dyn = "int3" ->
         IF fault = "write" THEN Written("WriteFailed", st, <<>>)
         ELSE Written("ok",
                      [st EXCEPT !.mem = WriteCode(@, CodeOff(o.target),
                                                   o.orig),
                                 !.veh = MapErase(@, o.target)], <<>>)
    [] dyn = "dr" ->
         LET dr_index == IF CallerTid \in DOMAIN st.drh
                         THEN st.drh[CallerTid] ELSE ub_index
         IN IF fault = "write" THEN Written("WriteFailed", st, <<>>)
            ELSE Written("ok",
                         [st EXCEPT !.ctx = ClearDr(@, dr_index),
                                    !.drh = MapErase(@, CallerTid),
                                    !.veh = MapErase(@, o.target)], <<>>)
    [] OTHER ->
         IF fault = "write" THEN Written("WriteFailed", st, <<>>)
         ELSE Written("ok",
                      [st EXCEPT !.mem = WriteCode(@, CodeOff(o.target),
                                                   o.orig)], <<>>)

\* PatchDetour::Apply after WritePatch returned w: the flush of the target
\* and applied_ = true.
ApplyWritten(o3, fault, w) ==
  LET o4 == [o3 EXCEPT !.trampolines = @ \o w.island] IN
  IF w.err # "ok" THEN Outcome(o4, w.st, w.err)
  ELSE IF fault = "flush" THEN Outcome(o4, w.st, "FlushFailed")
  ELSE Outcome([o4 EXCEPT !.applied = TRUE], w.st, "ok")

\* PatchDetour::Apply once orig_ is saved: VerifyPatchThreads, WritePatch.
ApplySaved(o3, p, st, pcs, ar, fault, free) ==
  IF ~VerifyPatchThreads(pcs, o3.target, Len(o3.orig))
  THEN Outcome(o3, st, "Busy")
  ELSE ApplyWritten(o3, fault, WritePatch(o3, p, st, free, fault, ar))

\* PatchDetour::Apply once the trampoline t is built: orig_ is read.
ApplyBuilt(o1, p, st, pcs, fault, cx, t) ==
  LET o2 == [o1 EXCEPT !.trampoline.code = t.code,
                       !.trampolines = t.islands]
  IN IF t.err # "ok" THEN Outcome(o2, st, t.err)
     ELSE ApplySaved([o2 EXCEPT !.orig =
                        ReadCode(st.mem, CodeOff(o1.target), cx.patch_size)],
                     p, st, pcs, cx.ar, fault, FreePages(cx, t.islands))

\* PatchDetour::Apply once the trampoline is allocated: the prologue is
\* read and relocated.  cx is what the relocation reads.
ApplyAllocated(o1, p, st, pcs, fault, cx) ==
  IF fault = "read" THEN Outcome(o1, st, "ReadFailed")
  ELSE ApplyBuilt(o1, p, st, pcs, fault, cx, BuildTrampoline(cx))

\* PatchDetour::Apply once trampoline_ and trampolines_ are reset (o0).
ApplyReset(o0, p, st, P, pcs, ar, fault, grant, base) ==
  IF base = Null THEN Outcome(o0, st, "AllocFailed")
  ELSE ApplyAllocated(
         [o0 EXCEPT !.trampoline = [base |-> base, code |-> <<>>]],
         p, st, pcs, fault,
         [buf |-> ReadCode(st.mem, CodeOff(o0.target),
                           Len(st.mem) - CodeOff(o0.target)),
          target |-> o0.target, base |-> base,
          patch_size |-> GetPatchSize(o0, ar), grant |-> grant, ar |-> ar,
          P |-> [P EXCEPT ![p] = o0]])

\* PatchDetour::Apply with its first checks, of applied_ and detached_,
\* left out.
DetourApplyAlways(o, p, st, P, pcs, ar, fault, grant, base) ==
  ApplyReset([o EXCEPT !.trampoline = NoTramp, !.trampolines = <<>>],
             p, st, P, pcs, ar, fault, grant, base)

\* PatchDetour::Apply on the object in slot p.  base: where the operating
\* system places the trampoline (Null: the allocation fails); grant: how
\* many near pages it grants during the call.
DetourApply(o, p, st, P, pcs, ar, fault, grant, base) ==
  IF o.applied \/ o.detached THEN Skipped(o, st)
  ELSE ApplyReset([o EXCEPT !.trampoline = NoTramp, !.trampolines = <<>>],
                  p, st, P, pcs, ar, fault, grant, base)

\* Remove with the deferred free made eager: trampoline_ and trampolines_
\* are released as soon as the original bytes are back.
RemovedFreeing(o, r) ==
  IF r.err # "ok" THEN Outcome(o, r.st, r.err)
  ELSE Outcome([o EXCEPT !.applied = FALSE, !.trampoline = NoTramp,
                         !.trampolines = <<>>], r.st, "ok")

\* PatchDetour::Remove after RemovePatch returned r.
Removed(o, r) ==
  IF r.err # "ok" THEN Outcome(o, r.st, r.err)
  ELSE Outcome([o EXCEPT !.applied = FALSE], r.st, "ok")

\* PatchDetour::Remove with the second VerifyPatchThreads call, on the
\* trampoline, left out.
DetourRemoveTargetOnly(dyn, o, st, pcs, fault, ub_index) ==
  IF ~o.applied THEN Skipped(o, st)
  ELSE IF ~VerifyPatchThreads(pcs, o.target, Len(o.orig))
  THEN Outcome(o, st, "Busy")
  ELSE Removed(o, RemovePatch(dyn, o, st, fault, ub_index))

\* PatchDetour::Remove, its RemovePatch call dispatched to class dyn.
DetourRemove(dyn, o, st, pcs, fault, ub_index) ==
  IF ~o.applied THEN Skipped(o, st)
  ELSE IF ~VerifyPatchThreads(pcs, o.target, Len(o.orig))
  THEN Outcome(o, st, "Busy")
  ELSE IF ~VerifyPatchThreads(pcs, o.trampoline.base, kTrampSize)
  THEN Outcome(o, st, "Busy")
  ELSE Removed(o, RemovePatch(dyn, o, st, fault, ub_index))

\* Remove() as called on an object through its public interface.
Remove(o, st, pcs, fault, ub_index) ==
  IF o.kind = "raw" THEN RawRemove(o, st, pcs, fault)
  ELSE DetourRemove(o.kind, o, st, pcs, fault, ub_index)

\* The catch block of RemoveUnchecked, r being what Remove did.
Caught(o, r) == IF r.err # "ok" THEN [r EXCEPT !.patch = Forget(o)] ELSE r

\* RemoveUnchecked: Remove, and on an exception forget every reference.
\* dyn: the class whose RemovePatch the call reaches.
RemoveUnchecked(dyn, o, st, pcs, fault, ub_index) ==
  Caught(o, IF o.kind = "raw" THEN RawRemove(o, st, pcs, fault)
            ELSE DetourRemove(dyn, o, st, pcs, fault, ub_index))

\* The class whose overrides a destructor's virtual calls reach: ~PatchDetour
\* runs after the derived parts are gone, so PatchDetour's own.
DestructorDispatch(o) == IF o.kind = "raw" THEN "raw" ELSE "detour"

---------------------------------------------------------------------------
(* The state machine. *)

\* A run is either one patch object, with the other threads running and
\* external calls that can fail, or NumPatches objects with the other
\* threads blocked outside the code of the model and no failing call, or
\* one detour-style patch object on a target function that begins with a
\* branch or a RIP-relative load, the other threads blocked likewise.
Parked == <<0, 1>>

NoCall == [op |-> "none", p |-> 0, err |-> "ok"]

NoShadow == [pre |-> <<>>, clean |-> FALSE]

St == [mem |-> mem, veh |-> veh_hooks, drh |-> dr_hooks, ctx |-> context]

\* No thread is inside a call of the patcher or the exception handler.
ThreadsIdle ==
  /\ local = TRUE
  /\ thread = <<>>
  /\ srw_lock = [excl |-> 0, shared |-> {}]
  /\ frozen = <<>>
  /\ handlers = 0
  /\ stale = FALSE

\* No CreateProcessInternalW call is in progress.
HookIdle ==
  /\ frames = <<>>
  /\ in_hook = 0
  /\ last_error = <<"caller", 0>>
  /\ children = <<>>

Init ==
  /\ arch \in {"x86", "x64"}
  /\ class \in Kinds
  /\ patches = [p \in Patches |-> NoPatch]
  /\ veh_hooks = EmptyMap
  /\ dr_hooks = EmptyMap
  /\ context \in IF class = "dr"
                 THEN {ClearContext, MixedContext, FullContext}
                 ELSE {ClearContext}
  /\ initialized = FALSE
  /\ \/ /\ objects = 1
        /\ faults = MaxFaults
        /\ pc = [w \in Workers |-> Null]
        /\ mem = OrigCode
     \/ /\ objects = NumPatches
        /\ faults = 0
        /\ pc = [w \in Workers |-> Parked]
        /\ mem = OrigCode
     \/ /\ objects = 1
        /\ faults = 0
        /\ pc = [w \in Workers |-> Parked]
        /\ class # "raw"
        /\ mem \in BranchCode(arch)
  /\ last = NoCall
  /\ shadow = [p \in Patches |-> NoShadow]
  /\ ThreadsIdle
  /\ HookIdle

\* What an operation on slot p leaves in the variables it may change.  A
\* step that injects a fault must end with that fault's error.
Commit(op, p, r, fault, P) ==
  /\ faults' = IF r.err \in FaultErrors THEN faults - 1 ELSE faults
  /\ faults' >= 0
  /\ fault # "none" => r.err \in FaultErrors
  /\ patches' = P
  /\ mem' = r.st.mem
  /\ veh_hooks' = r.st.veh
  /\ dr_hooks' = r.st.drh
  /\ context' = r.st.ctx
  /\ last' = IF r.ran THEN [op |-> op, p |-> p, err |-> r.err] ELSE NoCall
  /\ UNCHANGED <<tvars, hvars, arch, class, objects, initialized, pc>>

\* The bookkeeping of the round trip: a patch whose Apply succeeded
\* remembers the bytes it found; a write by one patch marks the others.
Track(p, applied_now, m) ==
  shadow' = [q \in Patches |->
               IF q = p /\ applied_now THEN [pre |-> mem, clean |-> TRUE]
               ELSE IF q # p /\ m # mem THEN NoShadow
               ELSE shadow[q]]

\* A constructor call: the slot gets a new, inert object.  Constructing a
\* PatchVeh registers the vectored handler on first use.
Construct(p) ==
  /\ patches[p].kind = "none"
  /\ objects > 0
  /\ objects' = objects - 1
  /\ \A q \in Patches : patches[q].kind = "none" => p <= q
  /\ \E detour \in Detours(arch) :
       /\ patches' = [patches EXCEPT ![p] =
            IF class = "raw" THEN NewPatch(class, TargetAddr, Null, RawData)
            ELSE NewPatch(class, TargetAddr, detour, <<>>)]
       /\ class = "raw" => detour = DetourNear
  /\ initialized' = (initialized \/ class \in VehKinds)
  /\ last' = NoCall
  /\ UNCHANGED <<tvars, hvars, arch, class, faults, mem, veh_hooks, dr_hooks, context, pc,
                 shadow>>

\* Apply() on the object in slot p returns with outcome r.
Applied(p, fault, r) ==
  /\ Commit("Apply", p, r, fault, [patches EXCEPT ![p] = r.patch])
  /\ Track(p, r.ran /\ r.err = "ok", r.st.mem)

Apply(p) ==
  /\ patches[p].kind # "none"
  /\ patches[p].process
  /\ \E fault \in Faults, grant \in 0 .. MaxNearQuota,
        base \in (TrampPool \ LiveTramps([patches EXCEPT ![p] = NoPatch]))
                   \cup {Null} :
       /\ (\/ patches[p].kind = "raw"
           \/ patches[p].applied
           \/ patches[p].detached) =>
            (grant = 0 /\ base = Null /\ fault = "none")
       /\ (arch = "x86" \/ fault = "read") => grant = 0
       /\ Applied(p, fault,
                  IF patches[p].kind = "raw"
                  THEN RawApply(patches[p], St, pc, fault)
                  ELSE DetourApply(patches[p], p, St, patches, pc, arch,
                                   fault, grant, base))

\* Remove() on the object in slot p returns with outcome r.
RemoveDone(p, fault, r) ==
  /\ Commit("Remove", p, r, fault, [patches EXCEPT ![p] = r.patch])
  /\ Track(p, FALSE, r.st.mem)

RemoveCall(p) ==
  /\ patches[p].kind # "none"
  /\ patches[p].process
  /\ \E fault \in Faults \ {"read"}, ub_index \in 0 .. 3 :
       /\ \/ patches[p].kind = "dr" /\ CallerTid \notin DOMAIN dr_hooks
          \/ ub_index = 0
       /\ RemoveDone(p, fault, Remove(patches[p], St, pc, fault, ub_index))

Detach(p) ==
  /\ patches[p].kind # "none"
  /\ patches' = [patches EXCEPT ![p].applied = FALSE, ![p].detached = TRUE]
  /\ last' = NoCall
  /\ UNCHANGED <<tvars, hvars, arch, class, objects, faults, mem, veh_hooks, dr_hooks,
                 context, initialized, pc, shadow>>

\* The destructor of the object in slot p, r being what its RemoveUnchecked
\* did: the members are destroyed and the object is gone.
Destroyed(p, fault, r) ==
  /\ Commit("Destroy", p, r, fault, [patches EXCEPT ![p] = NoPatch])
  /\ shadow' = [q \in Patches |->
                  IF q = p \/ r.st.mem # mem THEN NoShadow ELSE shadow[q]]

Destroy(p) ==
  /\ patches[p].kind # "none"
  /\ \E fault \in Faults \ {"read"} :
       Destroyed(p, fault,
                 RemoveUnchecked(DestructorDispatch(patches[p]), patches[p],
                                 St, pc, fault, 0))

\* The fields a move takes from the source object.
TakeFrom(o, other) ==
  [o EXCEPT !.process = other.process, !.applied = other.applied,
            !.target = other.target, !.detour = other.detour,
            !.data = other.data, !.orig = other.orig,
            !.trampoline = other.trampoline,
            !.trampolines = other.trampolines]

\* Move assignment once RemoveUnchecked on the destination did r.
MoveAssigned(p, q, fault, r) ==
  /\ Commit("MoveAssign", p, r, fault,
            [patches EXCEPT ![p] = TakeFrom(r.patch, patches[q]),
                            ![q] = MovedFrom(patches[q])])
  /\ shadow' = [e \in Patches |->
                  IF e = q \/ r.st.mem # mem THEN NoShadow
                  ELSE IF e = p THEN shadow[q] ELSE shadow[e]]

\* Move assignment, patches[p] = std::move(patches[q]).
MoveAssign(p, q) ==
  /\ p # q
  /\ patches[p].kind # "none"
  /\ patches[q].kind = patches[p].kind
  /\ \E fault \in Faults \ {"read"}, ub_index \in 0 .. 3 :
       /\ \/ patches[p].kind = "dr" /\ CallerTid \notin DOMAIN dr_hooks
          \/ ub_index = 0
       /\ MoveAssigned(p, q, fault,
                       RemoveUnchecked(patches[p].kind, patches[p], St, pc,
                                       fault, ub_index))

\* Move construction of a new object in slot p from patches[q].
MoveConstruct(p, q) ==
  /\ patches[p].kind = "none"
  /\ patches[q].kind # "none"
  /\ objects > 0
  /\ objects' = objects - 1
  /\ \A e \in Patches : patches[e].kind = "none" => p <= e
  /\ patches' = [patches EXCEPT
                   ![p] = TakeFrom([NoPatch EXCEPT !.kind = patches[q].kind],
                                   patches[q]),
                   ![q] = MovedFrom(patches[q])]
  /\ shadow' = [shadow EXCEPT ![p] = shadow[q], ![q] = NoShadow]
  /\ last' = NoCall
  /\ UNCHANGED <<tvars, hvars, arch, class, faults, mem, veh_hooks, dr_hooks, context,
                 initialized, pc>>

---------------------------------------------------------------------------
(* The other threads of the process. *)

TrampOwner(P, base) == CHOOSE p \in DOMAIN P : P[p].trampoline.base = base

\* Where control arrives after a thread runs the trampoline at base: the
\* first jump in it that transfers control.  Null: it ran into bytes that
\* were never written.
RECURSIVE RunCode(_, _, _, _)
RunCode(P, code, at, ar) ==
  IF code = <<>> \/ Head(code).op = "ret" THEN Null
  ELSE IF Head(code).op \in {"jmp", "jmpmem", "pushret32", "pushret64"}
  THEN LET d == JumpDest(P, Head(code), at, ar) IN
       IF d.ok THEN d.ptr ELSE Null
  ELSE RunCode(P, Tail(code), WAddInt(at, Head(code).len), ar)

\* A thread calls the target function.
WorkerCall(w) ==
  /\ pc[w] = Null
  /\ pc' = [pc EXCEPT ![w] = TargetAddr]
  /\ last' = NoCall
  /\ UNCHANGED <<tvars, hvars, arch, class, objects, faults, mem, patches, veh_hooks,
                 dr_hooks, context, initialized, shadow>>

\* Where the instruction ins of the target function, at address at, sends
\* the thread that executes it; h is what the exception handler did if ins
\* is a breakpoint, d where ins jumps if it is a jump.
Executed(ins, at, h, d) ==
  CASE ins.len = 0 -> Null
    [] ins.op = "int3" -> IF h.hit THEN h.rip ELSE Null
    [] ins.op = "ret" -> Null
    [] ins.op \in {"jmp", "jmpmem"} -> IF d.ok THEN d.ptr ELSE Null
    [] OTHER -> WAddInt(at, ins.len)

Execute(w, ins) ==
  \E h \in IF ins.op = "int3"
            THEN HandleBreakpoint(veh_hooks, patches, pc[w])
            ELSE {[hit |-> FALSE, rip |-> Null]} :
    pc' = [pc EXCEPT ![w] =
             Executed(ins, pc[w], h, JumpDest(patches, ins, pc[w], arch))]

\* A thread executes the instruction in the target function at its program
\* counter; 0xCC raises the breakpoint exception the handler dispatches.
WorkerInTarget(w) ==
  /\ InRange(pc[w], TargetAddr, Len(mem))
  /\ Execute(w, Disassemble(mem, CodeOff(pc[w])))
  /\ last' = NoCall
  /\ UNCHANGED <<tvars, hvars, arch, class, objects, faults, mem, patches, veh_hooks,
                 dr_hooks, context, initialized, shadow>>

\* A thread in a detour returns, or calls the original through
\* GetTrampoline() of a patch that redirects to this detour.
WorkerInDetour(w) ==
  /\ pc[w] \in Detours(arch)
  /\ \E next \in {Null} \cup
                 {patches[p].trampoline.base :
                    p \in {q \in Patches : patches[q].detour = pc[w]}} :
       pc' = [pc EXCEPT ![w] = next]
  /\ last' = NoCall
  /\ UNCHANGED <<tvars, hvars, arch, class, objects, faults, mem, patches, veh_hooks,
                 dr_hooks, context, initialized, shadow>>

\* A thread in a trampoline runs it to the jump that leaves it.
WorkerInTrampoline(w) ==
  /\ pc[w] \in LiveTramps(patches)
  /\ pc' = [pc EXCEPT ![w] =
       RunCode(patches, patches[TrampOwner(patches, pc[w])].trampoline.code,
               pc[w], arch)]
  /\ last' = NoCall
  /\ UNCHANGED <<tvars, hvars, arch, class, objects, faults, mem, patches, veh_hooks,
                 dr_hooks, context, initialized, shadow>>

\* A thread anywhere else: past the modelled bytes of the target it runs on
\* and returns; at an address that holds no code it faults and ends.
WorkerElsewhere(w) ==
  /\ pc[w] \notin {Null, Parked}
  /\ ~InRange(pc[w], TargetAddr, Len(mem))
  /\ pc[w] \notin Detours(arch)
  /\ pc[w] \notin LiveTramps(patches)
  /\ pc' = [pc EXCEPT ![w] = Null]
  /\ last' = NoCall
  /\ UNCHANGED <<tvars, hvars, arch, class, objects, faults, mem, patches, veh_hooks,
                 dr_hooks, context, initialized, shadow>>

Next ==
  \/ \E p \in Patches : Construct(p)
  \/ \E p \in Patches : Apply(p)
  \/ \E p \in Patches : RemoveCall(p)
  \/ \E p \in Patches : Detach(p)
  \/ \E p \in Patches : Destroy(p)
  \/ \E p, q \in Patches : MoveAssign(p, q)
  \/ \E p, q \in Patches : MoveConstruct(p, q)
  \/ \E w \in Workers : WorkerCall(w)
  \/ \E w \in Workers : WorkerInTarget(w)
  \/ \E w \in Workers : WorkerInDetour(w)
  \/ \E w \in Workers : WorkerInTrampoline(w)
  \/ \E w \in Workers : WorkerElsewhere(w)

Spec == Init /\ [][Next]_vars

---------------------------------------------------------------------------
(* The same operations statement by statement, run by several threads of   *)
(* one program.  Thread t calls the patcher on the object in slot t; one   *)
(* more thread of the patched process runs its code and takes exceptions.  *)

Callers == Patches

Dispatcher == NumPatches + 1

Threads == Callers \cup {Dispatcher}

\* The threads of the patched process: those of the program itself when it
\* patches its own process.
TargetThreads == IF local THEN Threads ELSE {Dispatcher}

\* SuspendedProcess: its constructor suspends every thread of the process
\* but the calling one, its destructor resumes them.
Suspended == UNION {frozen[c] : c \in Callers}

Runs(t) == t \notin Suspended

Suspend(t) == frozen' = [frozen EXCEPT ![t] = TargetThreads \ {t}]

\* The call returns or throws: the SuspendedProcess of its scope, if any,
\* is destroyed.
Leave(t) ==
  /\ thread' = [thread EXCEPT ![t].at = "idle"]
  /\ frozen' = [frozen EXCEPT ![t] = {}]

Goto(t, at) == thread' = [thread EXCEPT ![t].at = at]

Unlocked == [excl |-> 0, shared |-> {}]

\* What no statement of a thread changes.
Rest == <<arch, class, objects, context, pc, last, shadow, local, hvars>>

\* The address thread t patches: the two breakpoint-style patches of a run
\* are on different instructions of the function.
TargetOf(t) ==
  IF class \in VehKinds /\ t > 1 THEN WAddInt(TargetAddr, 5) ELSE TargetAddr

\* The constructor's member initialisers.
Constructed(t) ==
  patches' = [patches EXCEPT ![t] =
                IF class = "raw" THEN NewPatch(class, TargetAddr, Null, RawData)
                ELSE NewPatch(class, TargetOf(t), DetourNear, <<>>)]

\* A constructor call.  PatchVeh::PatchVeh throws for a process that is not
\* the caller's own, and otherwise calls Initialize.
ConstructEnter(t) ==
  /\ Runs(t)
  /\ thread[t].at = "idle"
  /\ patches[t].kind = "none"
  /\ IF class \in VehKinds
     THEN /\ Goto(t, IF local THEN "initialize" ELSE "idle")
          /\ UNCHANGED patches
     ELSE /\ Constructed(t)
          /\ UNCHANGED thread
  /\ UNCHANGED <<mem, veh_hooks, dr_hooks, initialized, faults, srw_lock,
                 frozen, handlers, stale, Rest>>

\* PatchVeh::Initialize: if (initialized) return;
InitializeCheck(t) ==
  /\ Runs(t)
  /\ thread[t].at = "initialize"
  /\ IF initialized
     THEN /\ Constructed(t)
          /\ Goto(t, "idle")
     ELSE /\ Goto(t, "add_handler")
          /\ UNCHANGED patches
  /\ UNCHANGED <<mem, veh_hooks, dr_hooks, initialized, faults, srw_lock,
                 frozen, handlers, stale, Rest>>

\* PatchVeh::Initialize: AddVectoredExceptionHandler(1, &VectoredHandler),
\* which registers the handler or fails, and then the constructor throws.
InitializeAdd(t) ==
  /\ Runs(t)
  /\ thread[t].at = "add_handler"
  /\ \E failed \in BOOLEAN :
       IF failed
       THEN /\ faults > 0
            /\ faults' = faults - 1
            /\ Goto(t, "idle")
            /\ UNCHANGED handlers
       ELSE /\ handlers' = handlers + 1
            /\ Goto(t, "set_initialized")
            /\ UNCHANGED faults
  /\ UNCHANGED <<mem, patches, veh_hooks, dr_hooks, initialized, srw_lock,
                 frozen, stale, Rest>>

\* PatchVeh::Initialize: initialized = true; the constructor then returns.
InitializeSet(t) ==
  /\ Runs(t)
  /\ thread[t].at = "set_initialized"
  /\ initialized' = TRUE
  /\ Constructed(t)
  /\ Goto(t, "idle")
  /\ UNCHANGED <<mem, veh_hooks, dr_hooks, faults, srw_lock, frozen,
                 handlers, stale, Rest>>

\* Apply up to the SuspendedProcess: the checks of applied_ and detached_,
\* and for the detour classes the reset of trampoline_ and trampolines_.
ApplyEnter(t) ==
  /\ Runs(t)
  /\ thread[t].at = "idle"
  /\ patches[t].kind # "none"
  /\ IF patches[t].applied \/ patches[t].detached
     THEN UNCHANGED <<patches, thread, frozen>>
     ELSE /\ patches' = [patches EXCEPT ![t] =
               IF @.kind = "raw" THEN @
               ELSE [@ EXCEPT !.trampoline = NoTramp, !.trampolines = <<>>]]
          /\ Suspend(t)
          /\ Goto(t, "build")
  /\ UNCHANGED <<mem, veh_hooks, dr_hooks, initialized, faults, srw_lock,
                 handlers, stale, Rest>>

\* What the relocation of Apply reads, the trampoline being at base.
BuildContext(t, base) ==
  [buf |-> ReadCode(mem, CodeOff(patches[t].target),
                    Len(mem) - CodeOff(patches[t].target)),
   target |-> patches[t].target, base |-> base,
   patch_size |-> GetPatchSize(patches[t], arch), grant |-> 0, ar |-> arch,
   P |-> patches]

\* The trampoline b built at base is stored, and orig_ is read.
Built(t, base, b, next) ==
  IF b.err # "ok"
  THEN /\ patches' = [patches EXCEPT ![t].trampoline =
                        [base |-> base, code |-> b.code]]
       /\ Leave(t)
  ELSE /\ patches' = [patches EXCEPT
            ![t].trampoline = [base |-> base, code |-> b.code],
            ![t].trampolines = b.islands,
            ![t].orig = ReadCode(mem, CodeOff(patches[t].target),
                                 GetPatchSize(patches[t], arch))]
       /\ Goto(t, next)
       /\ UNCHANGED frozen

\* Apply from the SuspendedProcess to the call of WritePatch.  PatchRaw:
\* VerifyPatchThreads, orig_ is read.  PatchDetour: the trampoline is
\* allocated and built, orig_ is read, VerifyPatchThreads.  The suspended
\* threads are in no code of the model's target function.
ApplyBuild(t) ==
  /\ Runs(t)
  /\ thread[t].at = "build"
  /\ IF patches[t].kind = "raw"
     THEN /\ patches' = [patches EXCEPT ![t].orig =
               ReadCode(mem, CodeOff(patches[t].target),
                        Len(patches[t].data))]
          /\ Goto(t, "write")
          /\ UNCHANGED frozen
     ELSE \E base \in TrampPool \ LiveTramps(patches) :
            Built(t, base, BuildTrampoline(BuildContext(t, base)),
                  IF patches[t].kind = "detour" THEN "write" ELSE "lock")
  /\ UNCHANGED <<mem, veh_hooks, dr_hooks, initialized, faults, srw_lock,
                 handlers, stale, Rest>>

\* AcquireSRWLock(&GetSrwLock(), SRWLockType::Exclusive) in WritePatch and
\* RemovePatch of PatchInt3 and PatchDr: the thread waits until no thread
\* holds the lock.
AcquireExclusive(t) ==
  /\ Runs(t)
  /\ thread[t].at \in {"lock", "lock_remove"}
  /\ srw_lock = Unlocked
  /\ srw_lock' = [srw_lock EXCEPT !.excl = t]
  /\ Goto(t, IF thread[t].at = "lock" THEN "insert" ELSE "erase")
  /\ UNCHANGED <<mem, patches, veh_hooks, dr_hooks, initialized, faults,
                 frozen, handlers, stale, Rest>>

\* WritePatch under the lock.  PatchInt3: veh_hooks[target_] = this, and
\* the scope of the lock ends.  PatchDr: veh_hooks[target_] = this, a free
\* debug register is looked for, and dr_hooks[thread_id] = dr_index; with
\* no free register the veh_hooks entry is erased and the call throws.
WritePatchInsert(t) ==
  /\ Runs(t)
  /\ thread[t].at = "insert"
  /\ IF patches[t].kind = "int3"
     THEN /\ veh_hooks' = MapPut(veh_hooks, patches[t].target, t)
          /\ srw_lock' = Unlocked
          /\ Goto(t, "write")
          /\ UNCHANGED <<dr_hooks, frozen>>
     ELSE IF FindDr(thread[t].ctx) = -1
     THEN /\ veh_hooks' =
               MapErase(MapPut(veh_hooks, patches[t].target, t),
                        patches[t].target)
          /\ srw_lock' = Unlocked
          /\ Leave(t)
          /\ UNCHANGED dr_hooks
     ELSE /\ veh_hooks' = MapPut(veh_hooks, patches[t].target, t)
          /\ dr_hooks' = MapPut(dr_hooks, t, FindDr(thread[t].ctx))
          /\ Goto(t, "set_context")
          /\ UNCHANGED <<srw_lock, frozen>>
  /\ UNCHANGED <<mem, patches, initialized, faults, handlers, stale, Rest>>

\* PatchDr::WritePatch: SetThreadContext; when it fails both entries are
\* erased and the call throws.  The lock is held to the end of WritePatch.
WritePatchContext(t) ==
  /\ Runs(t)
  /\ thread[t].at = "set_context"
  /\ \E failed \in BOOLEAN :
       IF failed
       THEN /\ faults > 0
            /\ faults' = faults - 1
            /\ veh_hooks' = MapErase(veh_hooks, patches[t].target)
            /\ dr_hooks' = MapErase(dr_hooks, t)
            /\ Leave(t)
       ELSE /\ thread' = [thread EXCEPT
                 ![t].ctx = SetDr(@, dr_hooks[t], patches[t].target),
                 ![t].at = "flush"]
            /\ UNCHANGED <<faults, veh_hooks, dr_hooks, frozen>>
  /\ srw_lock' = Unlocked
  /\ UNCHANGED <<mem, patches, initialized, handlers, stale, Rest>>

\* The bytes WritePatch of thread t's object writes to target_.
PatchBytes(t) ==
  CASE patches[t].kind = "raw" -> patches[t].data
    [] patches[t].kind = "int3" -> Bytes(Int3)
    [] OTHER -> Bytes(WriteJump(patches[t].target, patches[t].detour, FALSE,
                                {}, arch).ins)

\* WriteVector on the target in Apply (PatchRaw), in PatchDetour::WritePatch
\* and in PatchInt3::WritePatch, which catches the failure in cleanup_hook.
WritePatchBytes(t) ==
  /\ Runs(t)
  /\ thread[t].at = "write"
  /\ \E failed \in BOOLEAN :
       IF failed
       THEN /\ faults > 0
            /\ faults' = faults - 1
            /\ IF patches[t].kind = "int3"
               THEN Goto(t, "cleanup") /\ UNCHANGED frozen
               ELSE Leave(t)
            /\ UNCHANGED <<mem, stale>>
       ELSE /\ mem' = WriteCode(mem, CodeOff(patches[t].target),
                                PatchBytes(t))
            /\ stale' = TRUE
            /\ Goto(t, "flush")
            /\ UNCHANGED <<faults, frozen>>
  /\ UNCHANGED <<patches, veh_hooks, dr_hooks, initialized, srw_lock,
                 handlers, Rest>>

\* PatchInt3::WritePatch: the scope exit cleanup_hook erases the entry
\* after the scope of the lock has ended; the exception leaves Apply.
WritePatchCleanup(t) ==
  /\ Runs(t)
  /\ thread[t].at = "cleanup"
  /\ veh_hooks' = MapErase(veh_hooks, patches[t].target)
  /\ Leave(t)
  /\ UNCHANGED <<mem, patches, dr_hooks, initialized, faults, srw_lock,
                 handlers, stale, Rest>>

\* Apply after WritePatch: FlushInstructionCache, applied_ = true, return.
ApplyFlush(t) ==
  /\ Runs(t)
  /\ thread[t].at = "flush"
  /\ stale' = FALSE
  /\ patches' = [patches EXCEPT ![t].applied = TRUE]
  /\ Leave(t)
  /\ UNCHANGED <<mem, veh_hooks, dr_hooks, initialized, faults, srw_lock,
                 handlers, Rest>>

\* Remove up to RemovePatch: the check of applied_, the SuspendedProcess
\* and VerifyPatchThreads.
RemoveEnter(t) ==
  /\ Runs(t)
  /\ thread[t].at = "idle"
  /\ patches[t].kind # "none"
  /\ IF ~patches[t].applied
     THEN UNCHANGED <<thread, frozen>>
     ELSE /\ Suspend(t)
          /\ Goto(t, IF patches[t].kind = "dr" THEN "lock_remove"
                     ELSE "restore")
  /\ UNCHANGED <<mem, patches, veh_hooks, dr_hooks, initialized, faults,
                 srw_lock, handlers, stale, Rest>>

\* WriteVector(target_, orig_) in Remove (PatchRaw), PatchDetour::RemovePatch
\* and PatchInt3::RemovePatch.  PatchRaw::Remove then calls
\* FlushInstructionCache; PatchRaw and PatchDetour then clear applied_.
RemovePatchBytes(t) ==
  /\ Runs(t)
  /\ thread[t].at = "restore"
  /\ \E failed \in BOOLEAN :
       IF failed
       THEN /\ faults > 0
            /\ faults' = faults - 1
            /\ Leave(t)
            /\ UNCHANGED <<mem, patches, stale>>
       ELSE /\ mem' = WriteCode(mem, CodeOff(patches[t].target),
                                patches[t].orig)
            /\ stale' = (patches[t].kind # "raw")
            /\ IF patches[t].kind = "int3"
               THEN /\ Goto(t, "lock_remove")
                    /\ UNCHANGED <<patches, frozen>>
               ELSE /\ patches' = [patches EXCEPT ![t].applied = FALSE]
                    /\ Leave(t)
            /\ UNCHANGED faults
  /\ UNCHANGED <<veh_hooks, dr_hooks, initialized, srw_lock, handlers, Rest>>

\* RemovePatch under the lock.  PatchInt3: veh_hooks.erase(target_).
\* PatchDr: the debug register recorded for the thread is cleared, then
\* both entries are erased.  Remove then clears applied_.
RemovePatchErase(t) ==
  /\ Runs(t)
  /\ thread[t].at = "erase"
  /\ IF patches[t].kind = "dr"
     THEN \E failed \in BOOLEAN :
            IF failed
            THEN /\ faults > 0
                 /\ faults' = faults - 1
                 /\ thread' = [thread EXCEPT ![t].at = "idle"]
                 /\ UNCHANGED <<veh_hooks, dr_hooks, patches>>
            ELSE /\ thread' = [thread EXCEPT
                      ![t].ctx = ClearDr(@, dr_hooks[t]), ![t].at = "idle"]
                 /\ dr_hooks' = MapErase(dr_hooks, t)
                 /\ veh_hooks' = MapErase(veh_hooks, patches[t].target)
                 /\ patches' = [patches EXCEPT ![t].applied = FALSE]
                 /\ UNCHANGED faults
     ELSE /\ veh_hooks' = MapErase(veh_hooks, patches[t].target)
          /\ patches' = [patches EXCEPT ![t].applied = FALSE]
          /\ thread' = [thread EXCEPT ![t].at = "idle"]
          /\ UNCHANGED <<dr_hooks, faults>>
  /\ frozen' = [frozen EXCEPT ![t] = {}]
  /\ srw_lock' = Unlocked
  /\ UNCHANGED <<mem, initialized, handlers, stale, Rest>>

\* The offsets of the target function at which an instruction starts.
InsStarts(m) == {off \in 0 .. Len(m) - 1 : Disassemble(m, off).len > 0}

\* The other thread executes a 0xCC of the function, or takes a single-step
\* exception at one of its instructions: the registered VectoredHandler is
\* entered with that ExceptionCode and ExceptionAddress.
RaiseException(t) ==
  /\ Runs(t)
  /\ thread[t].at = "run"
  /\ handlers > 0
  /\ \E off \in InsStarts(mem), code \in {"breakpoint", "single_step"} :
       /\ code = "breakpoint" => Disassemble(mem, off).op = "int3"
       /\ thread' = [thread EXCEPT
            ![t].at = code, ![t].addr = WAddInt(TargetAddr, off),
            ![t].res = "none"]
  /\ UNCHANGED <<mem, patches, veh_hooks, dr_hooks, initialized, faults,
                 srw_lock, frozen, handlers, stale, Rest>>

\* AcquireSRWLock(&GetSrwLock(), SRWLockType::Shared) at the top of
\* HandleBreakpoint and HandleSingleStep.
AcquireShared(t) ==
  /\ Runs(t)
  /\ thread[t].at \in {"breakpoint", "single_step"}
  /\ srw_lock.excl = 0
  /\ srw_lock' = [srw_lock EXCEPT !.shared = @ \cup {t}]
  /\ Goto(t, IF thread[t].at = "breakpoint" THEN "find" ELSE "find_step")
  /\ UNCHANGED <<mem, patches, veh_hooks, dr_hooks, initialized, faults,
                 frozen, handlers, stale, Rest>>

\* The rest of HandleBreakpoint and HandleSingleStep: the lookups, the new
\* program counter on a hit, and the release of the lock on return.  dr6:
\* whether the bit of the thread's recorded index is set in Dr6.
HandleException(t) ==
  /\ Runs(t)
  /\ thread[t].at \in {"find", "find_step"}
  /\ \E dr6 \in BOOLEAN :
       LET hit == IF thread[t].at = "find"
                  THEN thread[t].addr \in DOMAIN veh_hooks
                  ELSE /\ thread[t].addr \in DOMAIN veh_hooks
                       /\ t \in DOMAIN dr_hooks
                       /\ dr6
       IN thread' = [thread EXCEPT ![t].at = "run",
                                   ![t].res = IF hit THEN "hit" ELSE "miss"]
  /\ srw_lock' = [srw_lock EXCEPT !.shared = @ \ {t}]
  /\ UNCHANGED <<mem, patches, veh_hooks, dr_hooks, initialized, faults,
                 frozen, handlers, stale, Rest>>

InitThreads ==
  /\ arch = "x86"
  /\ class \in Kinds
  /\ mem = OrigCode
  /\ patches = [p \in Patches |-> NoPatch]
  /\ veh_hooks = EmptyMap
  /\ dr_hooks = EmptyMap
  /\ context = ClearContext
  /\ initialized = FALSE
  /\ objects = 0
  /\ faults = MaxFaults
  /\ pc = [w \in Workers |-> Parked]
  /\ last = NoCall
  /\ shadow = [p \in Patches |-> NoShadow]
  /\ local \in BOOLEAN
  /\ \E cx \in IF class = "dr" THEN {ClearContext, FullContext}
               ELSE {ClearContext} :
       thread = [t \in Threads |->
                   [at |-> IF t = Dispatcher THEN "run" ELSE "idle",
                    addr |-> Null, ctx |-> cx, res |-> "none"]]
  /\ srw_lock = Unlocked
  /\ frozen = [t \in Callers |-> {}]
  /\ handlers = 0
  /\ stale = FALSE
  /\ HookIdle

NextThreads ==
  \/ \E t \in Callers : ConstructEnter(t)
  \/ \E t \in Callers : InitializeCheck(t)
  \/ \E t \in Callers : InitializeAdd(t)
  \/ \E t \in Callers : InitializeSet(t)
  \/ \E t \in Callers : ApplyEnter(t)
  \/ \E t \in Callers : ApplyBuild(t)
  \/ \E t \in Callers : AcquireExclusive(t)
  \/ \E t \in Callers : WritePatchInsert(t)
  \/ \E t \in Callers : WritePatchContext(t)
  \/ \E t \in Callers : WritePatchBytes(t)
  \/ \E t \in Callers : WritePatchCleanup(t)
  \/ \E t \in Callers : ApplyFlush(t)
  \/ \E t \in Callers : RemoveEnter(t)
  \/ \E t \in Callers : RemovePatchBytes(t)
  \/ \E t \in Callers : RemovePatchErase(t)
  \/ RaiseException(Dispatcher)
  \/ AcquireShared(Dispatcher)
  \/ HandleException(Dispatcher)

SpecThreads == InitThreads /\ [][NextThreads]_vars

\* The statements of a call thread t is in, after the trampoline is
\* built: the scheduler runs a thread that is not suspended and not
\* waiting, so a call that can go on does.
Returning(t) ==
  \/ InitializeCheck(t)
  \/ InitializeAdd(t)
  \/ InitializeSet(t)
  \/ AcquireExclusive(t)
  \/ WritePatchInsert(t)
  \/ WritePatchContext(t)
  \/ WritePatchBytes(t)
  \/ WritePatchCleanup(t)
  \/ ApplyFlush(t)
  \/ RemovePatchBytes(t)
  \/ RemovePatchErase(t)

\* The statements of the exception handler once an exception is raised.
Handling == AcquireShared(Dispatcher) \/ HandleException(Dispatcher)

\* ApplyBuild(t) is enabled exactly while t runs at "build", and every
\* step of it leaves "build": weak fairness for it says that t is not at
\* "build", running, forever.
Building(t) == Runs(t) /\ thread[t].at = "build"

\* SpecThreads under a scheduler that is weakly fair to every thread: to
\* the calls in progress and to the handler, not to the start of a call or
\* to the raising of an exception.
SpecThreadsFair ==
  /\ SpecThreads
  /\ \A t \in Callers : WF_vars(Returning(t)) /\ []<>~Building(t)
  /\ WF_vars(Handling)

---------------------------------------------------------------------------
(* The CreateProcessInternalW hook of cerberus, on one thread.  children   *)
(* has one record per call of the hook: whether the original function      *)
(* created a process, whether the caller asked for CREATE_SUSPENDED, how   *)
(* often the hook called ResumeThread on the primary thread, the state of  *)
(* the injection, and the path on which the call returned.                 *)

MaxCalls == 4

NewCall(suspended) ==
  [created |-> FALSE, suspended |-> suspended, resumes |-> 0,
   inject |-> "none", path |-> "none", returned |-> FALSE,
   result |-> FALSE, seen |-> <<"none", 0>>]

\* The locals of one invocation of CreateProcessInternalWDetour.
\* saved: the last_error_ of last_error_preserver, set by its constructor.
NewFrame(call) ==
  [at |-> "original", call |-> call, ret |-> FALSE, resume_thread |-> FALSE,
   recursion_protector |-> FALSE, helper |-> 0, saved |-> last_error]

\* detail::LastErrorPreserver: Update() stores ::GetLastError(), Revert()
\* and the destructor call ::SetLastError with what is stored.
LastErrorUpdate(f, e) == [f EXCEPT !.saved = e]

LastErrorRevert(f) == f.saved

\* What the original function of a call leaves as the last error.
LeftBy(call) == <<"original", call>>

\* The last error after calls of other API functions, which may set it.
Clobbered == {last_error, <<"other", 0>>}

\* The hook returns TRUE whatever the original function returned.
ReturnValueTrue(f) == TRUE

\* return ret;
ReturnValue(f) == f.ret

Top == frames[Len(frames)]

SetTop(f) == frames' = [frames EXCEPT ![Len(frames)] = f]

\* What the hook leaves alone.
HookRest ==
  <<arch, class, mem, patches, veh_hooks, dr_hooks, context, initialized,
    objects, faults, pc, last, shadow, tvars>>

\* resume_thread is armed regardless of the caller's creation flags.
ResumeArmedAlways(ret, suspended) == ret

\* if (ret && !(creation_flags & CREATE_SUSPENDED)) resume_thread.reset(...)
ResumeArmed(ret, suspended) == ret /\ ~suspended

\* The program calls CreateProcessInternalW, which enters the detour: the
\* statements up to the call of the original function through the
\* trampoline, with CREATE_SUSPENDED or-ed into the flags.
CallHook ==
  /\ frames = <<>>
  /\ Len(children) + 2 <= MaxCalls
  /\ \E suspended \in BOOLEAN :
       children' = Append(children, NewCall(suspended))
  /\ frames' = <<NewFrame(Len(children) + 1)>>
  /\ last_error' = LastErrorRevert(NewFrame(Len(children) + 1))
  /\ UNCHANGED <<in_hook, HookRest>>

\* The original function returns ret; resume_thread is set up.
OriginalReturns ==
  /\ frames # <<>>
  /\ Top.at = "original"
  /\ \E ret \in BOOLEAN :
       /\ SetTop(LastErrorUpdate(
            [Top EXCEPT
               !.at = "check", !.ret = ret,
               !.resume_thread =
                 ResumeArmed(ret, children[Top.call].suspended)],
            LeftBy(Top.call)))
       /\ children' = [children EXCEPT ![Top.call].created = ret]
  /\ last_error' = LeftBy(Top.call)
  /\ UNCHANGED <<in_hook, HookRest>>

\* detail::RecursionProtector: its constructor sets the flag it is given,
\* its destructor undoes that.
RecursionProtectorSet(n) == n + 1

RecursionProtectorRevert(n) == n - 1

\* The test of in_hook with no invocation ever taken for a nested one.
RecursingNever(n) == FALSE

\* if (in_hook)
Recursing(n) == n # 0

\* if (in_hook) return ret;  RecursionProtector{&in_hook};
\* if (!ret) return ret;  otherwise the try block is entered.
RecursionCheck ==
  /\ frames # <<>>
  /\ Top.at = "check"
  /\ IF Recursing(in_hook)
     THEN /\ SetTop([Top EXCEPT !.at = "return"])
          /\ children' = [children EXCEPT ![Top.call].path = "recursion"]
          /\ UNCHANGED in_hook
     ELSE /\ in_hook' = RecursionProtectorSet(in_hook)
          /\ IF ~Top.ret
             THEN /\ SetTop([Top EXCEPT !.at = "return",
                                        !.recursion_protector = TRUE])
                  /\ children' =
                       [children EXCEPT ![Top.call].path = "failed"]
             ELSE /\ SetTop([Top EXCEPT !.at = "inject",
                                        !.recursion_protector = TRUE])
                  /\ children' =
                       [children EXCEPT ![Top.call].inject = "running"]
  /\ last_error' \in Clobbered
  /\ UNCHANGED HookRest

\* The try block: with the same bitness, InjectDll and CallExport, which
\* return or throw; with a different one the command line of inject.exe is
\* built for the call of CreateProcessW.
Inject ==
  /\ frames # <<>>
  /\ Top.at = "inject"
  /\ \E mismatch, thrown \in BOOLEAN :
       IF mismatch
       THEN /\ ~thrown
            /\ SetTop([Top EXCEPT !.at = "spawn"])
            /\ UNCHANGED children
       ELSE /\ SetTop([Top EXCEPT !.at = "return"])
            /\ children' = [children EXCEPT
                 ![Top.call].inject = IF thrown THEN "failed" ELSE "done",
                 ![Top.call].path = IF thrown THEN "exception"
                                    ELSE "injected"]
  /\ last_error' \in Clobbered
  /\ UNCHANGED <<in_hook, HookRest>>

\* ::CreateProcessW for inject.exe with creation flags 0: it reaches
\* CreateProcessInternalW and so the detour again, on the same thread.
SpawnInjector ==
  /\ frames # <<>>
  /\ Top.at = "spawn"
  /\ Len(children) < MaxCalls
  /\ children' = Append(children, NewCall(FALSE))
  /\ frames' = Append([frames EXCEPT ![Len(frames)] =
                         [Top EXCEPT !.at = "wait",
                                     !.helper = Len(children) + 1]],
                      NewFrame(Len(children) + 1))
  /\ last_error' = LastErrorRevert(NewFrame(Len(children) + 1))
  /\ UNCHANGED <<in_hook, HookRest>>

\* CreateProcessW has returned: on failure the hook throws; otherwise it
\* waits for inject.exe to exit, which a suspended process never does, and
\* throws when the wait, GetExitCodeProcess or the exit code say failure.
InjectorDone ==
  /\ frames # <<>>
  /\ Top.at = "wait"
  /\ \E thrown \in BOOLEAN :
       /\ ~children[Top.helper].created => thrown
       /\ children[Top.helper].created => children[Top.helper].resumes > 0
       /\ SetTop([Top EXCEPT !.at = "return"])
       /\ children' = [children EXCEPT
            ![Top.call].inject = IF thrown THEN "failed" ELSE "done",
            ![Top.call].path = IF thrown THEN "exception" ELSE "injected"]
  /\ last_error' \in Clobbered
  /\ UNCHANGED <<in_hook, HookRest>>

\* return ret: the locals are destroyed in reverse order of construction,
\* recursion_protector, which undoes its change of in_hook, then
\* resume_thread, whose destructor calls ResumeThread, then
\* last_error_preserver, which sets the last error.
Return ==
  /\ frames # <<>>
  /\ Top.at = "return"
  /\ in_hook' = IF Top.recursion_protector
                THEN RecursionProtectorRevert(in_hook) ELSE in_hook
  /\ children' = [children EXCEPT
       ![Top.call].resumes = IF Top.resume_thread THEN @ + 1 ELSE @,
       ![Top.call].returned = TRUE,
       ![Top.call].result = ReturnValue(Top),
       ![Top.call].seen = LastErrorRevert(Top)]
  /\ last_error' = LastErrorRevert(Top)
  /\ frames' = SubSeq(frames, 1, Len(frames) - 1)
  /\ UNCHANGED HookRest

InitHook ==
  /\ arch \in {"x86", "x64"}
  /\ class = "detour"
  /\ mem = OrigCode
  /\ patches = [p \in Patches |-> NoPatch]
  /\ veh_hooks = EmptyMap
  /\ dr_hooks = EmptyMap
  /\ context = ClearContext
  /\ initialized = FALSE
  /\ objects = 0
  /\ faults = 0
  /\ pc = [w \in Workers |-> Parked]
  /\ last = NoCall
  /\ shadow = [p \in Patches |-> NoShadow]
  /\ ThreadsIdle
  /\ HookIdle

NextHook ==
  \/ CallHook
  \/ OriginalReturns
  \/ RecursionCheck
  \/ Inject
  \/ SpawnInjector
  \/ InjectorDone
  \/ Return

SpecHook == InitHook /\ [][NextHook]_vars

---------------------------------------------------------------------------
(* Properties. *)

\* Some thread other than the caller has its program counter in
\* [lo, lo + len).
ThreadIn(lo, len) == \E w \in Workers : InRange(pc[w], lo, len)

\* The number of target bytes Apply of object o overwrites.
PatchSizeOf(o) ==
  IF o.kind = "raw" THEN Len(o.data) ELSE GetPatchSize(o, arch)

\* The step is the return of a call of op on slot p that got past its
\* first checks.
Returned(op, p) == last'.op = op /\ last'.p = p

\* The state is the one a call of op on slot p returned in.
Returns(op, p) == last.op = op /\ last.p = p

\* The allocations object o holds: its trampoline and its islands.
Owned(o) ==
  ({o.trampoline.base} \ {Null}) \cup {i.base : i \in SeqRange(o.trampolines)}

\* The allocations a step frees: those no object holds afterwards, and
\* those Apply drops when it resets trampoline_ and trampolines_.
Freed ==
  (LiveAllocs(patches) \ LiveAllocs(patches'))
    \cup (IF last'.op = "Apply" THEN Owned(patches[last'.p]) ELSE {})

\* C1: round trip.  When Remove succeeds on a patch of any kind whose last
\* successful Apply found the target bytes B, and nothing else has written
\* to the target since that Apply, every byte of the target is B again.
RoundTrip ==
  \A p \in Patches :
    (Returns("Remove", p) /\ last.err = "ok" /\ shadow[p].clean)
      => mem = shadow[p].pre

\* C1: a detour patch has been applied and removed with no other writer.
RoundTripDone ==
  \E p \in Patches :
    /\ Returns("Remove", p)
    /\ last.err = "ok"
    /\ shadow[p].clean
    /\ patches[p].kind = "detour"

\* C2: no free while executing.  In every step that frees a trampoline or
\* island allocation, no thread's program counter is inside it.
NoFreeWhileExecuting ==
  [][\A b \in Freed : ~ThreadIn(b, AllocSize(b))]_vars

\* The instruction ins, placed at the target of object o, is a jump that
\* takes control to the detour of o.
LandsOnDetour(ins, o) ==
  /\ ins.op \in {"jmp", "jmpmem"}
  /\ JumpDest(patches, ins, o.target, arch) = [ok |-> TRUE, ptr |-> o.detour]

\* C3: on x64, when Apply of a detour patch has succeeded, the bytes at its
\* target decode to a jump whose destination, directly or through the
\* island slot it reads, is the detour of the patch.
JumpReachesDetour ==
  \A p \in Patches :
    (/\ arch = "x64"
     /\ patches[p].kind = "detour"
     /\ Returns("Apply", p)
     /\ last.err = "ok")
      => LandsOnDetour(Disassemble(mem, CodeOff(patches[p].target)),
                       patches[p])

\* The errors of Apply that are raised before VerifyPatchThreads runs:
\* the trampoline allocation, the read of the prologue, its relocation.
EarlyErrors == {"AllocFailed", "ReadFailed", "Disasm", "NoNearPage"}

\* C4, as stated: when Apply runs on a patch while another thread is in
\* [target, target + patch_size), it fails with the busy-target error,
\* writes nothing to the target and leaves the patch not applied.
ApplyFailsBusy ==
  [][\A p \in Patches :
       (/\ Returned("Apply", p)
        /\ ThreadIn(patches[p].target, PatchSizeOf(patches[p])))
         => (/\ last'.err = "Busy"
             /\ mem' = mem
             /\ ~patches'[p].applied)]_vars

\* C4, amended: when Apply runs on a patch while another thread is in
\* [target, target + patch_size), it fails, with the busy-target error
\* unless an earlier step of the call has already failed, writes nothing
\* to the target and leaves the patch not applied.
ApplyFailsEarlyOrBusy ==
  [][\A p \in Patches :
       (/\ Returned("Apply", p)
        /\ ThreadIn(patches[p].target, PatchSizeOf(patches[p])))
         => (/\ last'.err \in {"Busy"} \cup EarlyErrors
             /\ mem' = mem
             /\ ~patches'[p].applied)]_vars

\* C4: Apply has failed with the busy-target error on a patch while a
\* thread is in the bytes it would overwrite.
ApplyBusyHit ==
  \E p \in Patches :
    /\ Returns("Apply", p)
    /\ last.err = "Busy"
    /\ ThreadIn(patches[p].target, PatchSizeOf(patches[p]))

\* C5: when Remove runs on an applied detour patch while another thread is
\* in the saved prologue range or in the trampoline, it fails, the target
\* bytes stay as they are and the patch stays applied; so the bytes are
\* restored only when neither range holds another thread.
RemoveFailsBusy ==
  [][\A p \in Patches :
       (/\ Returned("Remove", p)
        /\ patches[p].kind # "raw"
        /\ \/ ThreadIn(patches[p].target, Len(patches[p].orig))
           \/ ThreadIn(patches[p].trampoline.base, kTrampSize))
         => (/\ last'.err = "Busy"
             /\ mem' = mem
             /\ patches'[p].applied)]_vars

\* C5: Remove has failed on a patch while a thread is in its trampoline
\* and none is in its target range.
RemoveBusyInTrampoline ==
  \E p \in Patches :
    /\ Returns("Remove", p)
    /\ last.err = "Busy"
    /\ patches[p].applied
    /\ ThreadIn(patches[p].trampoline.base, kTrampSize)
    /\ ~ThreadIn(patches[p].target, Len(patches[p].orig))

\* C6: error atomicity.  When Apply or Remove returns an error, the target
\* bytes, the applied flag, the breakpoint map, the DR map and the debug
\* registers are what they were before the call.
ErrorAtomic ==
  [][\A p \in Patches :
       (/\ Returned("Apply", p) \/ Returned("Remove", p)
        /\ last'.err # "ok")
         => (/\ mem' = mem
             /\ patches'[p].applied = patches[p].applied
             /\ veh_hooks' = veh_hooks
             /\ dr_hooks' = dr_hooks
             /\ context' = context)]_vars

\* C7: after Apply of a detour patch has returned an error, the patch is
\* not applied and holds no trampoline and no island.
FailedApplyOwnsNothing ==
  \A p \in Patches :
    (/\ Returns("Apply", p)
     /\ last.err # "ok"
     /\ patches[p].kind # "raw")
      => (~patches[p].applied /\ Owned(patches[p]) = {})

\* C8: registry invariant.  Every entry of the address-to-patch map refers
\* to a patch object that exists and whose applied flag is true.
RegistryApplied ==
  \A a \in DOMAIN veh_hooks :
    /\ patches[veh_hooks[a]].kind # "none"
    /\ patches[veh_hooks[a]].applied

\* C9: breakpoint collision.  When a breakpoint or debug-register patch is
\* applied at an address whose map entry refers to another patch, Apply
\* fails, the entry is unchanged and a breakpoint at the address is still
\* dispatched as before.
DuplicateRejected ==
  [][\A p \in Patches :
       (/\ Returned("Apply", p)
        /\ patches[p].kind \in VehKinds
        /\ patches[p].target \in DOMAIN veh_hooks
        /\ veh_hooks[patches[p].target] # p)
         => (/\ last'.err # "ok"
             /\ veh_hooks' = veh_hooks
             /\ HandleBreakpoint(veh_hooks', patches', patches[p].target)
                  = HandleBreakpoint(veh_hooks, patches, patches[p].target))
    ]_vars

\* The debug register with index i and its local-enable bit are clear.
DrClear(cx, i) == cx.dr[i + 1] = Null /\ (2 * i) \notin cx.dr7

\* C10: when an applied breakpoint or debug-register patch is destroyed and
\* its removal reports no error, the address-to-patch map has no entry for
\* its target afterwards, and for a debug-register patch the thread's
\* DR-index entry is gone and that debug register and its enable bit are
\* clear.
DestroyUnregisters ==
  [][\A p \in Patches :
       (/\ Returned("Destroy", p)
        /\ last'.err = "ok"
        /\ patches[p].kind \in VehKinds
        /\ patches[p].applied)
         => (/\ patches[p].target \notin DOMAIN veh_hooks'
             /\ patches[p].kind = "dr" =>
                  (/\ CallerTid \notin DOMAIN dr_hooks'
                   /\ CallerTid \in DOMAIN dr_hooks =>
                        DrClear(context', dr_hooks[CallerTid])))]_vars

\* The object in slot p is destroyed in this step.
Destructed(p) == patches[p].kind # "none" /\ patches'[p].kind = "none"

\* The object in slot p is the destination of a move assignment in this
\* step: it ends with the allocations of the source q, which is left empty.
MovedInto(p) ==
  \E q \in Patches \ {p} :
    /\ patches[p].kind # "none"
    /\ patches[q].kind # "none"
    /\ patches'[p].kind # "none"
    /\ patches'[q] = MovedFrom(patches[q])
    /\ patches'[p].trampoline = patches[q].trampoline
    /\ patches'[p].trampolines = patches[q].trampolines

\* Remove returning on slot p leaves the trampoline of the object, the
\* instructions in it and its islands as they were.
RemoveKeeps(p) ==
  Returned("Remove", p) =>
    /\ patches'[p].trampoline = patches[p].trampoline
    /\ patches'[p].trampolines = patches[p].trampolines

\* C11, as stated: Remove frees no trampoline and no island and leaves
\* their contents unchanged; an allocation a patch holds is released only
\* by an Apply on that patch or by the destruction of that patch.
TrampolineLifetime ==
  [][\A p \in Patches :
       /\ RemoveKeeps(p)
       /\ (Owned(patches[p]) \cap Freed # {})
            => (Returned("Apply", p) \/ Destructed(p))]_vars

\* C11, amended: Remove frees no trampoline and no island and leaves their
\* contents unchanged; an allocation a patch holds is released only by an
\* Apply on that patch, by the destruction of that patch or by a move
\* assignment into that patch.
TrampolineLifetimeMove ==
  [][\A p \in Patches :
       /\ RemoveKeeps(p)
       /\ (Owned(patches[p]) \cap Freed # {})
            => (Returned("Apply", p) \/ Destructed(p) \/ MovedInto(p))]_vars

\* C11: Remove has succeeded on a detour patch that still holds the
\* trampoline and the island of the cycle it ended.
RemovedKeepsIsland ==
  \E p \in Patches :
    /\ Returns("Remove", p)
    /\ last.err = "ok"
    /\ ~patches[p].applied
    /\ patches[p].trampoline.code # <<>>
    /\ patches[p].trampolines # <<>>

\* The length of the prologue the relocation loop consumes from buf: whole
\* instructions until their lengths add up to patch_size or more.
RECURSIVE PrologueLen(_, _, _)
PrologueLen(buf, off, patch_size) ==
  IF off >= patch_size \/ Disassemble(buf, off).len = 0 THEN off
  ELSE PrologueLen(buf, off + Disassemble(buf, off).len, patch_size)

\* Where the last instruction of the trampoline of object o sends a thread.
TailDest(o) ==
  LET code == o.trampoline.code
      n == Len(code)
  IN IF n = 0 THEN [ok |-> FALSE, ptr |-> Null]
     ELSE JumpDest(patches, code[n],
                   WAddInt(o.trampoline.base, CodeSize(SubSeq(code, 1, n - 1))),
                   arch)

\* C12: for every applied byte-patch detour whose patch_size (5 or 6) ends
\* on an instruction boundary of the prologue it found, the tail jump at
\* the end of the trampoline lands at exactly target + patch_size.
TailJumpReturns ==
  \A p \in Patches :
    (/\ patches[p].kind = "detour"
     /\ patches[p].applied
     /\ shadow[p].pre # <<>>
     /\ PrologueLen(shadow[p].pre, 0, GetPatchSize(patches[p], arch))
          = GetPatchSize(patches[p], arch))
      => TailDest(patches[p])
           = [ok |-> TRUE,
              ptr |-> WAddInt(patches[p].target,
                              GetPatchSize(patches[p], arch))]

\* The instructions the relocation loop consumes from buf, each with its
\* offset: whole instructions until their lengths reach patch_size.
RECURSIVE PrologueIns(_, _, _)
PrologueIns(buf, off, patch_size) ==
  IF off >= patch_size \/ Disassemble(buf, off).len = 0 THEN <<>>
  ELSE <<[ins |-> Disassemble(buf, off), off |-> off]>>
         \o PrologueIns(buf, off + Disassemble(buf, off).len, patch_size)

\* The absolute address the instruction ins, placed at address at, refers
\* to: the destination of a branch, direct or through its pointer slot, or
\* the location of a RIP-relative memory operand.  Null: it refers to none.
RefersTo(P, ins, at) ==
  CASE ins.op \in {"jmp", "call", "jmpmem", "callmem", "pushret32",
                   "pushret64"} -> JumpDest(P, ins, at, arch)
    [] ins.op \in {"jcc", "movrip"} ->
         [ok |-> TRUE,
          ptr |-> Ptr(WAdd(WAddInt(at, ins.len), SExt32(ins.imm)), arch)]
    [] OTHER -> [ok |-> TRUE, ptr |-> Null]

\* The address of instruction k of the trampoline with base base.
TrampAt(base, code, k) == WAddInt(base, CodeSize(SubSeq(code, 1, k - 1)))

\* C13: relocation preserves semantics.  When Apply of a detour-style
\* patch succeeds, the trampoline holds one instruction per instruction of
\* the prologue it found, followed by the tail jump, and each refers to
\* the same absolute address as the prologue instruction did at its place
\* in the target: branch destinations and RIP-relative operands alike.
RelocationPreserves ==
  [][\A p \in Patches :
       (/\ Returned("Apply", p)
        /\ last'.err = "ok"
        /\ patches[p].kind # "raw")
         => LET src == PrologueIns(mem, CodeOff(patches[p].target),
                                   GetPatchSize(patches[p], arch))
                code == patches'[p].trampoline.code
            IN /\ Len(code) = Len(src) + 1
               /\ \A k \in 1 .. Len(src) :
                    RefersTo(patches', code[k],
                             TrampAt(patches'[p].trampoline.base, code, k))
                      = RefersTo(patches', src[k].ins,
                                 WAddInt(patches[p].target, src[k].off))]_vars

\* What Apply() does when it is called on the object in slot p in the
\* current state, for one choice of the failing call and of the allocator.
ApplyOn(p, fault, grant, base) ==
  IF patches[p].kind = "raw" THEN RawApply(patches[p], St, pc, fault)
  ELSE DetourApply(patches[p], p, St, patches, pc, arch, fault, grant, base)

\* The call returned at its first checks and changed nothing: no field of
\* the object (flags, saved bytes, trampoline, islands), no target byte,
\* no registry entry, no debug register.
NoOp(p, r) ==
  /\ ~r.ran
  /\ r.err = "ok"
  /\ r.patch = patches[p]
  /\ r.st = St

\* C14: idempotence.  In every reachable state, Apply() on a patch of any
\* kind that is applied, and Remove() on one that is not applied, returns
\* at its first check whatever the environment would do: it writes no
\* target byte, allocates and frees nothing and changes no flag, saved
\* byte or registry entry.
IdempotentCalls ==
  \A p \in Patches :
    patches[p].kind # "none" =>
      /\ patches[p].applied =>
           \A fault \in Faults, grant \in 0 .. MaxNearQuota,
              base \in TrampPool \cup {Null} :
             NoOp(p, ApplyOn(p, fault, grant, base))
      /\ ~patches[p].applied =>
           \A fault \in Faults, ub_index \in 0 .. 3 :
             NoOp(p, Remove(patches[p], St, pc, fault, ub_index))

\* C14: a debug-register patch is applied, with its registry entries and
\* its debug register set, while another thread is inside its target range.
AppliedAndBusy ==
  \E p \in Patches :
    /\ patches[p].kind = "dr"
    /\ patches[p].applied
    /\ patches[p].target \in DOMAIN veh_hooks
    /\ CallerTid \in DOMAIN dr_hooks
    /\ ThreadIn(patches[p].target, kDrPatchSize)

\* What the destructor of the object in slot p does in the current state.
DestroyOn(p, fault) ==
  RemoveUnchecked(DestructorDispatch(patches[p]), patches[p], St, pc, fault, 0)

\* C15: detach is terminal.  In every reachable state, a patch on which
\* Detach() has been called reports not-applied, and Apply(), Remove() and
\* the destructor called on it write no target byte and change no
\* registry entry.
DetachTerminal ==
  \A p \in Patches :
    (patches[p].kind # "none" /\ patches[p].detached) =>
      /\ ~patches[p].applied
      /\ \A fault \in Faults, grant \in 0 .. MaxNearQuota,
            base \in TrampPool \cup {Null} :
           ApplyOn(p, fault, grant, base).st = St
      /\ \A fault \in Faults, ub_index \in 0 .. 3 :
           Remove(patches[p], St, pc, fault, ub_index).st = St
      /\ \A fault \in Faults : DestroyOn(p, fault).st = St


---------------------------------------------------------------------------
(* Properties of the threads. *)

\* Thread t is in a WriteVector call on the bytes of the target function.
Writing(t) == thread[t].at \in {"write", "restore"}

\* C16: whenever a thread inside Apply or Remove is writing bytes of the
\* target, every other thread of the patched process is suspended and no
\* other thread is writing bytes of the target.
SingleWriter ==
  \A t \in Callers :
    Writing(t) =>
      /\ (TargetThreads \ {t}) \subseteq Suspended
      /\ \A u \in Callers \ {t} : ~Writing(u)

\* C17: veh_hooks and dr_hooks change only in a step of the thread that
\* holds the lock exclusively, and the handler does its lookups only while
\* it holds the lock shared.
LockDiscipline ==
  [][/\ (veh_hooks' # veh_hooks \/ dr_hooks' # dr_hooks) =>
          \E t \in Callers : srw_lock.excl = t /\ thread'[t] # thread[t]
     /\ \A t \in Threads :
          thread[t].at \in {"find", "find_step"} => t \in srw_lock.shared
    ]_vars

\* C18: a thread that has the other threads of the process suspended
\* neither holds the lock of the registry nor is waiting for it.
NoLockWhileFrozen ==
  \A t \in Callers :
    frozen[t] # {} =>
      /\ srw_lock.excl # t
      /\ thread[t].at \notin {"lock", "lock_remove"}

\* C19: VectoredHandler is registered at most once, it is registered once
\* a PatchInt3 or PatchDr object exists, and never for a process that is
\* not the caller's own, for which no such object comes to exist.
HandlerOnce ==
  /\ handlers <= 1
  /\ (\E t \in Callers : patches[t].kind \in VehKinds) => handlers = 1
  /\ ~local =>
       /\ handlers = 0
       /\ \A t \in Callers : patches[t].kind \notin VehKinds

---------------------------------------------------------------------------
(* Properties of the CreateProcessInternalW hook. *)

\* C20: a call of the hook that has returned called ResumeThread on the
\* child's primary thread once if the original function had created the
\* process and the caller had not asked for CREATE_SUSPENDED, and never
\* otherwise; a call that has not returned has not called it; and it is
\* not called while the injection of the call is running.
DeterministicResume ==
  \A i \in DOMAIN children :
    /\ children[i].returned =>
         children[i].resumes =
           IF children[i].created /\ ~children[i].suspended THEN 1 ELSE 0
    /\ ~children[i].returned => children[i].resumes = 0
    /\ children[i].resumes > 0 => children[i].inject # "running"

\* C20: a call whose injection threw and the nested call that created the
\* injector have both returned and resumed their child once, and a call
\* for a process the caller wanted suspended has returned after an
\* injection.
ResumedOnEveryPath ==
  /\ \E i \in DOMAIN children :
       /\ children[i].returned /\ children[i].path = "exception"
       /\ children[i].resumes = 1
  /\ \E i \in DOMAIN children :
       /\ children[i].returned /\ children[i].path = "recursion"
       /\ children[i].resumes = 1
  /\ \E i \in DOMAIN children :
       /\ children[i].returned /\ children[i].path = "injected"
       /\ children[i].suspended /\ children[i].resumes = 0

\* The statements of the try block: the injection and the helper.
InjectionStep == {"inject", "spawn", "wait"}

\* C21: at most one invocation on the thread is in its injection step; a
\* nested invocation returns on the recursion path, having injected
\* nothing and spawned no helper; with no invocation left in_hook is
\* clear; and an invocation that is not nested and whose process was
\* created goes through the injection.
RecursionProtected ==
  /\ Cardinality({k \in DOMAIN frames : frames[k].at \in InjectionStep}) <= 1
  /\ \A k \in DOMAIN frames :
       /\ k > 1 => /\ frames[k].at \notin InjectionStep
                   /\ frames[k].helper = 0
                   /\ children[frames[k].call].inject = "none"
       /\ k = 1 => children[frames[k].call].path # "recursion"
  /\ frames = <<>> => in_hook = 0
  /\ \A i \in DOMAIN children :
       children[i].returned =>
         IF children[i].path = "recursion" \/ ~children[i].created
         THEN children[i].inject = "none"
         ELSE children[i].inject \in {"done", "failed"}

\* C21: after a call that spawned the helper has returned, and the nested
\* call with it, the next call of the program is in its injection step.
InjectsAgain ==
  /\ Len(frames) = 1
  /\ frames[1].at = "inject"
  /\ \E i \in DOMAIN children :
       children[i].returned /\ children[i].path = "recursion"

\* C22: a call of the hook that has returned, on whichever path, returned
\* the value the original function returned, and the thread's last error
\* at its return was the one the original function left.
Transparent ==
  \A i \in DOMAIN children :
    children[i].returned =>
      /\ children[i].result = children[i].created
      /\ children[i].seen = LeftBy(i)

\* C22: a call whose injection threw has returned, with the last error
\* the original function left.
TransparentAfterException ==
  \E i \in DOMAIN children :
    /\ children[i].returned
    /\ children[i].path = "exception"
    /\ children[i].created
    /\ children[i].seen = LeftBy(i)
    /\ frames = <<>>
    /\ last_error = LeftBy(i)

---------------------------------------------------------------------------
(* Properties of the jump planner and writer. *)

\* The value fits a signed 32-bit integer.
FitsInt32(w) == w[1] >= -W15 /\ w[1] < W15

\* C23: the patch size planned for a PatchDetour is 5 on x86, and on x64
\* it is 5 when detour - (target + 5) fits a signed 32-bit integer and 6
\* otherwise.
PlannerSize ==
  \A p \in Patches :
    patches[p].kind = "detour" =>
      GetPatchSize(patches[p], arch) =
        IF \/ arch = "x86"
           \/ FitsInt32(WAddInt(WSub(patches[p].detour, patches[p].target),
                                -5))
        THEN 5 ELSE 6

\* C24: in the trampoline of an applied patch only the last instruction,
\* the jump back, is a push/ret sequence; a jump relocated from the
\* prologue is not.
PushRetOnlyTail ==
  \A p \in Patches :
    patches[p].applied =>
      \A k \in 1 .. Len(patches[p].trampoline.code) - 1 :
        patches[p].trampoline.code[k].op \notin {"pushret32", "pushret64"}

\* The push/ret sequence WriteJump emits at address for the destination
\* to when no relative jump and no island can be used.
PushRetFor(address, to) == WriteJumpFar(address, to, TRUE, Null).ins

\* C25: on x64, for the destinations of the program's patches (the detour
\* and the address behind the redirection), the push/ret sequence the
\* writer emits is 6 bytes long when the high 32 bits of the destination
\* are zero and 14 otherwise, and executing it transfers control to
\* exactly the destination.
PushRetLands ==
  arch = "x64" =>
    \A p \in Patches :
      patches[p].kind = "detour" =>
        \A to \in {patches[p].detour, WAddInt(patches[p].target, 5)} :
          /\ PushRetFor(patches[p].target, to).len =
               IF TargetHigh(to) = Null THEN 6 ELSE 14
          /\ JumpDest(patches, PushRetFor(patches[p].target, to),
                      patches[p].target, arch)
               = [ok |-> TRUE, ptr |-> to]

---------------------------------------------------------------------------
(* Properties of Remove and of the debug registers. *)

\* C26: with byte-patch detours, whenever bytes of the target have been
\* written and not flushed from the instruction cache, the call that wrote
\* them is still in progress and holds the threads of the process
\* suspended: Remove flushes before it resumes them.
RemoveFlushes ==
  class = "detour" => (stale => \E t \in Callers : frozen[t] # {})

\* C27: with one PatchDr object, on a thread whose Dr0..Dr3 and Dr7 were
\* zero before its Apply (no other context of the model has Dr0 zero), a
\* successful Remove leaves Dr0..Dr3, Dr7 and both registry maps as they
\* were before the Apply.
DrRoundTrip ==
  \A p \in Patches :
    (/\ class = "dr"
     /\ Returns("Remove", p)
     /\ last.err = "ok"
     /\ context.dr[1] = Null
     /\ \A q \in Patches \ {p} : patches[q].kind = "none")
      => /\ context = ClearContext
         /\ veh_hooks = EmptyMap
         /\ dr_hooks = EmptyMap

\* C28: debug-register selection.  When Apply() of a debug-register patch
\* succeeds, the index it recorded for the thread is the smallest i in 0..3
\* whose DRi was zero and whose bit 2i of Dr7 was clear, and DRi holds the
\* target; when there was no such index the call fails, with the
\* no-free-debug-register error unless it failed before WritePatch (a
\* failing call, or a thread found in the target range), and both registry
\* maps and the debug registers are as they were.
DrSelection ==
  [][\A p \in Patches :
       (/\ patches[p].kind = "dr"
        /\ ~patches[p].applied
        /\ Returned("Apply", p))
         => LET free == {i \in 0 .. 3 : DrClear(context, i)}
            IN /\ last'.err = "ok" =>
                    /\ free # {}
                    /\ CallerTid \in DOMAIN dr_hooks'
                    /\ dr_hooks'[CallerTid] \in free
                    /\ \A j \in free : dr_hooks'[CallerTid] <= j
                    /\ context'.dr[dr_hooks'[CallerTid] + 1] = patches[p].target
               /\ free = {} =>
                    /\ last'.err # "ok"
                    /\ (faults' = faults /\ last'.err # "Busy")
                         => last'.err = "NoFreeDr"
                    /\ veh_hooks' = veh_hooks
                    /\ dr_hooks' = dr_hooks
                    /\ context' = context]_vars

---------------------------------------------------------------------------
(* Properties of the exception handler. *)

\* The exception codes the handler is entered with.
ExceptionCodes == {"breakpoint", "single_step", "access_violation"}

\* The claimed condition for VectoredHandler to take the exception.
Hit(tid, code, address, dr6) ==
  \/ code = "breakpoint" /\ address \in DOMAIN veh_hooks
  \/ /\ code = "single_step"
     /\ address \in DOMAIN veh_hooks
     /\ tid \in DOMAIN dr_hooks
     /\ dr_hooks[tid] \in dr6

\* C29: dispatcher hit/miss.  In every reachable state, for an exception
\* of any code on any thread at a hooked or an unhooked address, the
\* handler changes the exception context iff it returns
\* continue-execution, it returns continue-execution iff the exception is
\* a hit, and on a hit the program counter is the detour of the patch the
\* map entry refers to (and for single-step Dr6 is zero and the resume
\* flag is set).
DispatcherHitMiss ==
  \A tid \in {CallerTid, CallerTid + 1}, code \in ExceptionCodes,
     address \in {TargetAddr, WAddInt(TargetAddr, 1)},
     dr6 \in SUBSET (0 .. 3), rf \in BOOLEAN :
    LET cx == ExceptionContext(address, dr6, rf) IN
    \A out \in VectoredHandler(veh_hooks, dr_hooks, patches, tid, code,
                               address, cx) :
      /\ (out.cx # cx) <=> (out.ret = "continue_execution")
      /\ (out.ret = "continue_execution") <=> Hit(tid, code, address, dr6)
      /\ Hit(tid, code, address, dr6) =>
           /\ out.cx.rip = patches[veh_hooks[address]].detour
           /\ code = "single_step" => (out.cx.dr6 = {} /\ out.cx.rf)

---------------------------------------------------------------------------
(* Properties of hook chains. *)

\* C30: hook-chain relocation.  When Apply() of a detour patch B succeeds
\* on a target whose bytes are the redirection an applied detour patch A
\* wrote there (nothing else has written since), the first instruction of
\* B's trampoline is a transfer whose destination, directly or through the
\* slot it reads, is A's detour.
ChainRelocation ==
  [][\A p \in Patches, q \in Patches :
       (/\ p # q
        /\ patches[p].kind = "detour"
        /\ patches[q].kind = "detour"
        /\ patches[q].target = patches[p].target
        /\ patches[q].applied
        /\ shadow[q].clean
        /\ Disassemble(mem, CodeOff(patches[q].target)).op
             \in {"jmp", "jmpmem"}
        /\ Returned("Apply", p)
        /\ last'.err = "ok"
        /\ ~patches[p].applied)
         => LET code == patches'[p].trampoline.code
            IN /\ code # <<>>
               /\ code[1].op \in {"jmp", "jmpmem", "pushret32", "pushret64"}
               /\ JumpDest(patches', code[1], patches'[p].trampoline.base,
                           arch)
                    = [ok |-> TRUE, ptr |-> patches[q].detour]]_vars

---------------------------------------------------------------------------
(* Properties of AllocatePageNear. *)

\* Addresses AllocatePageNear is called with: the target, and a cursor in
\* the trampoline below it.
ScanFrom == {TargetAddr, WAddInt(TrampBelow, 5)}

\* Pages on both sides of those addresses, within 0x7FFFFF00 of them and
\* beyond: 0x0FF00000, 0x90000000, the first page of the pool above the
\* target, and 0x110000000.
ScanPages ==
  {TrampBelow, WAddInt(TargetAddr, -4096), <<36896, 0>>, <<69632, 0>>}

\* The address at which the scan from address tries page P: VirtualAlloc
\* rounds the candidate down to its page.
Candidate(address, P) == WAddInt(P, address[2] % PageSize[2])

\* The pages of free that a candidate of the forward scan from address
\* falls in, and those of the backward scan.
ForwardOf(address, free) ==
  {P \in free :
     /\ WLe(address, Candidate(address, P))
     /\ WLt(Candidate(address, P),
            WMin(WAdd(address, NearSpan), MaxAppAddr))}

BackwardOf(address, free) ==
  {P \in free :
     /\ WLe(Candidate(address, P), address)
     /\ WLt(WMax(WSub(address, NearSpan), MinAppAddr),
            Candidate(address, P))}

\* What the scan from address must return: page, given the pages its
\* forward and its backward candidates can allocate.
ScanOrder(address, page, forward, backward) ==
  /\ forward # {} =>
       (page \in forward /\ \A P \in forward : WLe(page, P))
  /\ (forward = {} /\ backward # {}) =>
       (page \in backward /\ \A P \in backward : WLe(P, page))
  /\ (page = Null) <=> (forward \cup backward = {})
  /\ (page # Null /\ WLt(Candidate(address, page), address)) =>
       forward = {}

\* C31: near-page scan order.  On x64, for every address and every set of
\* pages that can still be allocated, AllocatePageNear returns the first
\* page the
\* forward candidates address, address + page, ... below
\* min(address + 0x7FFFFF00, maximum application address) reach; when none
\* of them can be allocated, the first page the backward candidates
\* address, address - page, ... above max(address - 0x7FFFFF00, minimum
\* application address) reach; it fails only when no candidate of either
\* scan can be allocated; a page whose candidate is below the address is
\* returned only when no forward candidate could be allocated.
NearPageScanOrder ==
  arch = "x64" =>
    \A address \in ScanFrom,
       free \in SUBSET (ScanPages \ LiveIslandPages(patches)) :
      ScanOrder(address, AllocatePageNear(address, free),
                ForwardOf(address, free), BackwardOf(address, free))

\* C31: Apply() has placed an island in a page AllocatePageNear found by
\* its forward scan while a page the backward scan reaches was free too.
NearPageTaken ==
  /\ arch = "x64"
  /\ \E p \in Patches :
       /\ patches[p].applied
       /\ \E i \in SeqRange(patches[p].trampolines) :
            /\ WLt(patches[p].target, i.base)
            /\ i.base = AllocatePageNear(patches[p].target,
                                         ScanPages \ (LiveIslandPages(patches)
                                                        \ {i.base}))
            /\ BackwardOf(patches[p].target, ScanPages) # {}

---------------------------------------------------------------------------
(* Properties of chained and moved patches. *)

\* C32: chained removal.  With two byte-patch detours on one target, both
\* live and neither detached, in a program that started from the original
\* bytes: when a Remove has succeeded and neither patch is applied any
\* more, the target holds the original bytes again; and a patch that
\* reports applied while the other does not has its redirection at the
\* target.
ChainedRemoval ==
  \A p \in Patches, q \in Patches :
    (/\ p # q
     /\ objects = 0
     /\ patches[p].kind = "detour"
     /\ patches[q].kind = "detour"
     /\ patches[p].target = patches[q].target
     /\ ~patches[p].detached
     /\ ~patches[q].detached
     /\ Returns("Remove", p)
     /\ last.err = "ok"
     /\ ~patches[p].applied)
      => /\ ~patches[q].applied => mem = OrigCode
         /\ patches[q].applied =>
              LandsOnDetour(Disassemble(mem, CodeOff(patches[q].target)),
                            patches[q])

\* The step moves the object in slot q into slot p, by construction or by
\* assignment.
MovedTo(p, q) ==
  /\ p # q
  /\ patches[q].process
  /\ patches'[q] = MovedFrom(patches[q])
  /\ patches'[p] # patches[p]
  /\ patches'[p].kind = patches[q].kind
  /\ patches'[p].process
  /\ patches'[p].applied = patches[q].applied
  /\ patches'[p].target = patches[q].target
  /\ patches'[p].detour = patches[q].detour

\* C33: move keeps the registry consistent.  After an applied breakpoint
\* or debug-register patch is moved into another object, the
\* address-to-patch map entry of its target refers to the object that now
\* holds the applied state; and the object a detached patch is moved into
\* is detached.
MoveKeepsRegistry ==
  [][\A p \in Patches, q \in Patches :
       MovedTo(p, q) =>
         /\ (/\ patches[q].kind \in VehKinds
             /\ patches[q].applied
             /\ patches[q].target \in DOMAIN veh_hooks)
              => (/\ patches[q].target \in DOMAIN veh_hooks'
                  /\ veh_hooks'[patches[q].target] = p)
         /\ patches[q].detached => patches'[p].detached]_vars

---------------------------------------------------------------------------
(* Properties of the trampoline's size. *)

\* An x64 function loaded above 4 GiB, at 0x190001000, that begins with
\* two short jumps: jmp $+2 ; jmp $+2 ; mov eax, imm32 ; ret.
HighTarget == WAdd(TargetAddr, <<W16, 0>>)
ShortJmpCode ==
  Bytes(Ins("jmp", 2, Null)) \o Bytes(Ins("jmp", 2, Null))
    \o Bytes(Ins("mov", 5, Null)) \o Bytes(Ins("ret", 1, Null))

\* What the relocation of Apply() reads for that function: the trampoline
\* at either place of the pool, patch_size 5 or 6, and AllocatePageNear
\* granted up to MaxNearQuota pages.
ShortJmpInputs ==
  {[buf |-> ShortJmpCode, target |-> HighTarget, base |-> base,
    patch_size |-> patch_size, grant |-> grant, ar |-> "x64",
    P |-> patches] :
     base \in TrampPool, patch_size \in {kJmpSize32, kJmpSize64x64},
     grant \in 0 .. MaxNearQuota}

\* C34: trampoline bound.  The instructions a successful relocation writes
\* into the trampoline, the relocated prologue and the tail jump, take no
\* more than kTrampSize = 45 bytes: for every trampoline a patch holds,
\* and for the function that begins with two short jumps.
TrampolineBound ==
  /\ \A p \in Patches : CodeSize(patches[p].trampoline.code) <= kTrampSize
  /\ \A cx \in ShortJmpInputs :
       BuildTrampoline(cx).err = "ok" =>
         CodeSize(BuildTrampoline(cx).code) <= kTrampSize

---------------------------------------------------------------------------
(* Properties of the exception handler under concurrent Remove. *)

\* C35: no lost breakpoint.  A breakpoint exception raised at the target
\* of a patch, where only the patch's 0xCC can have raised it, is never
\* reported as a miss by HandleBreakpoint, whatever the other threads did
\* between the exception and the lookup.
NoLostBreakpoint ==
  [][\A t \in Threads :
       (/\ thread[t].at = "find"
        /\ thread'[t].at = "run"
        /\ \E c \in Callers : thread[t].addr = TargetOf(c))
         => thread'[t].res = "hit"]_vars

---------------------------------------------------------------------------
(* Termination of Apply and Remove. *)

\* Thread t is inside Apply() or Remove().
InCall(t) ==
  thread[t].at \in {"build", "lock", "lock_remove", "insert", "set_context",
                    "write", "cleanup", "flush", "restore", "erase"}

\* C36: deadlock freedom.  Under a fair scheduler every Apply() and
\* Remove() call on a breakpoint or debug-register patch returns, whatever
\* the other threads were doing when the caller suspended them.
CallsReturn ==
  \A t \in Callers : (class \in VehKinds /\ InCall(t)) ~> ~InCall(t)

====
